---- MODULE Spec2Model ----
(***************************************************************************)
(* Reservation and scheduling engine of bParking: the booking lifecycle    *)
(* (BookingResolver), the waitlist (WaitlistResolver), the recurrence      *)
(* tick and the waitlist tick (SchedulerService), over one parking.        *)
(*                                                                         *)
(* Time is counted in minutes since midnight of day 0.  Money is counted   *)
(* in hundredths of the currency unit (decimal(10,2) columns).             *)
(* The store is the relational store the code talks to through TypeORM:    *)
(* a row is inserted with the column defaults and the NOT NULL constraints *)
(* of the schema, and the entity hooks run before every insert/update.     *)
(***************************************************************************)
EXTENDS Integers, Sequences, FiniteSets, TLC

VARIABLES now, totalSpaces, bookings, waitlists, rules, res, calls, notifications,
          channel

vars ==
  <<now, totalSpaces, bookings, waitlists, rules, res, calls, notifications, channel>>

(***************************************************************************)
(* Bounds of the exploration.                                              *)
(***************************************************************************)
MaxSpaces == 2
MaxSeed == 1
MaxHeld == 3
MaxRows == 1
MaxHistory == 2

Users == {"A", "B"}

\* Interval endpoints offered to the operations: day 2, 09:00, 10:00, 11:00.
Bnd == {3420, 3480, 3540}

\* Instants the clock visits (minutes): day 0 00:00 (57h before 09:00 of
\* day 2), day 2 07:00 (2h before 09:00, 3h before 10:00), 09:00, 10:01.
Clock == {0, 3300, 3420, 3481}

NULL == 0 - 1
NoSpace == 0
\* createdAt of the rows that were in the store before the clock starts
BeforeStart == 0 - 1440

\* Rows inserted since the start: bookings, waitlist entries, rules.
NewRows == Cardinality({i \in 1..Len(bookings) : bookings[i].createdAt >= 0})
           + Len(waitlists) + Len(rules)

\* Largest id a booking can have.
MaxBookings == MaxHeld + MaxRows + 1

(***************************************************************************)
(* Program constants.                                                      *)
(***************************************************************************)
MinutesPerHour == 60
MinutesPerDay == 1440
CheckInWindow == 15
CancellationDeadline == 120
FullRefundMinutes == 1440
HalfRefundMinutes == 120
WaitlistExpiry == 1440
NotifyWindow == 15
HourlyRate == 500
DailyRate == 5000

\* Math.ceil(x / d) for x >= 0, d > 0
CeilDiv(x, d) == (x + d - 1) \div d

SeqToSet(s) == {s[i] : i \in 1..Len(s)}

\* parking.parkingSpaces: the units of the parking in their stored order
\* (unit k is the k-th element), all with isAvailable = true.
parkingSpaces == [k \in 1..totalSpaces |-> k]

(***************************************************************************)
(* Booking entity.                                                         *)
(***************************************************************************)
HoldsCapacity(b) == b.status \in {"confirmed", "active"}

\* The overlap test of half-open intervals (spec 4.1); used by the
\* statements of the properties.
Overlaps(s1, e1, s2, e2) == s1 < e2 /\ s2 < e1

\* validateBookingTimes without its check of the start against the clock
validateBookingTimesNoClock(b) ==
  IF b.startTime >= b.endTime THEN "Start time must be before end time" ELSE "ok"

\* Booking.validateBookingTimes, the @BeforeInsert/@BeforeUpdate hook:
\* "ok" or the error it throws.
validateBookingTimes(b) ==
  IF b.startTime >= b.endTime THEN "Start time must be before end time"
  ELSE IF b.startTime < now THEN "Start time cannot be in the past"
  ELSE "ok"

\* canBeCancelled without the 2-hour deadline
canBeCancelledAnyTime(b) == b.status \in {"pending", "confirmed"}

\* Booking.canBeCancelled
canBeCancelled(b) ==
  /\ b.status \in {"pending", "confirmed"}
  /\ now < b.startTime - CancellationDeadline

\* calculateRefundAmount without its 50% tier
calculateRefundAmountNoTiers(b) ==
  IF ~canBeCancelled(b) THEN 0 ELSE b.totalAmount

\* Booking.calculateRefundAmount
calculateRefundAmount(b) ==
  IF ~canBeCancelled(b) THEN 0
  ELSE IF b.startTime - now >= FullRefundMinutes THEN b.totalAmount
  ELSE IF b.startTime - now >= HalfRefundMinutes THEN b.totalAmount \div 2
  ELSE 0

\* canCheckIn without its test of the status
canCheckInAnyStatus(b) ==
  /\ b.checkInTime = NULL
  /\ now >= b.startTime - CheckInWindow
  /\ now <= b.endTime

\* Booking.canCheckIn
canCheckIn(b) ==
  /\ b.status = "confirmed"
  /\ b.checkInTime = NULL
  /\ now >= b.startTime - CheckInWindow
  /\ now <= b.endTime

\* Booking.canCheckOut
canCheckOut(b) ==
  /\ b.status = "active"
  /\ b.checkInTime # NULL
  /\ b.checkOutTime = NULL

\* Booking.isExpired
isExpired(b) == now > b.endTime

\* Booking.canBeExtended.  Its last conjunct, checkInTime !== undefined,
\* holds of every loaded row: a column without a value is loaded as null.
canBeExtended(b) ==
  /\ b.status = "active"
  /\ ~isExpired(b)
  /\ b.checkInTime \in {NULL} \cup Nat

(***************************************************************************)
(* The bookings table.  A row that is inserted gets the next id; status    *)
(* and paymentStatus fall back to the column defaults when the entity      *)
(* leaves them unset; spaceId is NOT NULL without a default.               *)
(***************************************************************************)
UNSET == "unset"

DefaultStatus == "pending"
DefaultPaymentStatus == "pending"

NewBooking(u, sp, s, e, amount, st, pst) ==
  [userId |-> u, spaceId |-> sp, startTime |-> s, endTime |-> e,
   status |-> st, paymentStatus |-> pst, totalAmount |-> amount,
   checkInTime |-> NULL, checkOutTime |-> NULL, refundAmount |-> NULL,
   extensionHistory |-> <<>>, createdAt |-> now]

\* the insert of a store that takes a row without a unit
InsertErrorHooksOnly(b) == validateBookingTimes(b)

\* What bookingRepository.save(entity) does for a new entity: the hooks,
\* then the INSERT.  "ok" or the error thrown.
InsertError(b) ==
  IF validateBookingTimes(b) # "ok" THEN validateBookingTimes(b)
  ELSE IF b.spaceId = NoSpace THEN "null value in column spaceId"
  ELSE "ok"

InsertedRow(b) ==
  [b EXCEPT !.status = IF b.status = UNSET THEN DefaultStatus ELSE b.status,
            !.paymentStatus = IF b.paymentStatus = UNSET
                              THEN DefaultPaymentStatus ELSE b.paymentStatus]

\* What bookingRepository.save(entity) does for a loaded entity that was
\* changed: the @BeforeUpdate hook, then the UPDATE.
UpdateError(b) == validateBookingTimes(b)

RECURSIVE LeadingDigit(_)
\* the first decimal digit of the natural number n
LeadingDigit(n) == IF n < 10 THEN n ELSE LeadingDigit(n \div 10)

\* booking.totalAmount += additional, on a loaded row.  The decimal(10,2)
\* column is loaded as its text ("6.00"), so += appends the text of the
\* number ("6.00" + 5 is "6.005") and the UPDATE casts the result back to
\* decimal(10,2), rounding half away from zero.  A number with a fraction
\* or a sign gives a text the cast rejects.
AppendedAmountError(additional) ==
  IF additional < 0 \/ additional % 100 # 0
  THEN "invalid input syntax for type numeric" ELSE "ok"

AppendedAmount(total, additional) ==
  total + (IF LeadingDigit(additional \div 100) >= 5 THEN 1 ELSE 0)

(***************************************************************************)
(* BookingResolver.checkAvailability and calculatePricing.                 *)
(***************************************************************************)
\* Between(startTime, endTime) on the startTime column: SQL BETWEEN, both
\* ends included.
Between(x, lo, hi) == lo <= x /\ x <= hi

conflictingBookings(bs, s, e) ==
  {i \in 1..Len(bs) : HoldsCapacity(bs[i]) /\ Between(bs[i].startTime, s, e)}

occupiedSpaceIds(bs, s, e) == {bs[i].spaceId : i \in conflictingBookings(bs, s, e)}

\* availableSpaces: the units of parkingSpaces, in order, that are not occupied
availableSpaces(bs, s, e) ==
  SelectSeq(parkingSpaces, LAMBDA k : k \notin occupiedSpaceIds(bs, s, e))

checkAvailability(bs, s, e) ==
  [isAvailable |-> Len(availableSpaces(bs, s, e)) > 0,
   availableSpaces |-> availableSpaces(bs, s, e),
   availableCount |-> Len(availableSpaces(bs, s, e))]

\* Date.getHours() of an instant
HourOf(t) == (t % MinutesPerDay) \div MinutesPerHour

calculatePricing(s, e) ==
  LET duration == IF e >= s THEN CeilDiv(e - s, MinutesPerHour)
                  ELSE 0 - ((s - e) \div MinutesPerHour)
      baseAmount == IF duration <= 24 THEN duration * HourlyRate
                    ELSE CeilDiv(duration, 24) * DailyRate
      isPeakTime == (HourOf(s) >= 7 /\ HourOf(s) <= 9) \/ (HourOf(s) >= 17 /\ HourOf(s) <= 19)
  IN IF isPeakTime THEN baseAmount + (baseAmount * 2) \div 10 ELSE baseAmount

Result(op, ok, thrown, msg) == [op |-> op, ok |-> ok, thrown |-> thrown, msg |-> msg]

\* The checkAvailability query, asked for the interval [s, e): the answer
\* is what the caller holds afterwards.
CheckAvailability(s, e) ==
  /\ res' = [op |-> "checkAvailability", ok |-> TRUE, thrown |-> FALSE, msg |-> "",
             startTime |-> s, endTime |-> e,
             availability |-> checkAvailability(bookings, s, e)]
  /\ UNCHANGED <<now, totalSpaces, bookings, waitlists, rules, calls, notifications, channel>>

(***************************************************************************)
(* BookingResolver.createBooking                                           *)
(***************************************************************************)
CreateBooking(u, sp, s, e) ==
  LET availability == checkAvailability(bookings, s, e)
      spaceId == IF sp # NoSpace THEN sp
                 ELSE IF Len(availability.availableSpaces) > 0
                      THEN availability.availableSpaces[1] ELSE NoSpace
      booking == NewBooking(u, spaceId, s, e, calculatePricing(s, e), UNSET, UNSET)
  IN /\ IF ~availability.isAvailable
        THEN /\ res' = Result("createBooking", FALSE, FALSE, "No spaces available for the selected time")
             /\ UNCHANGED bookings
        ELSE IF spaceId = NoSpace \/ spaceId \notin SeqToSet(availability.availableSpaces)
        THEN /\ res' = Result("createBooking", FALSE, FALSE, "Selected space is not available")
             /\ UNCHANGED bookings
        ELSE IF InsertError(booking) # "ok"
        THEN /\ res' = Result("createBooking", FALSE, FALSE, "Failed to create booking. Please try again.")
             /\ UNCHANGED bookings
        ELSE /\ bookings' = Append(bookings, InsertedRow(booking))
             /\ res' = Result("createBooking", TRUE, FALSE, "Booking created successfully")
     /\ UNCHANGED <<now, totalSpaces, waitlists, rules, calls, notifications, channel>>

\* findOneBy({ id, userId }): the row, when it exists and is the caller's
Found(u, id) == id \in 1..Len(bookings) /\ bookings[id].userId = u

(***************************************************************************)
(* BookingResolver.cancelBooking                                           *)
(***************************************************************************)
CancelBooking(u, id) ==
  /\ IF ~Found(u, id)
     THEN /\ res' = Result("cancelBooking", FALSE, FALSE, "Booking not found")
          /\ UNCHANGED bookings
     ELSE LET booking == bookings[id]
              changed == [booking EXCEPT !.status = "cancelled",
                                         !.refundAmount = calculateRefundAmount(booking)]
          IN IF ~canBeCancelled(booking)
             THEN /\ res' = Result("cancelBooking", FALSE, FALSE, "Booking cannot be cancelled at this time")
                  /\ UNCHANGED bookings
             ELSE IF UpdateError(changed) # "ok"
             THEN /\ res' = Result("cancelBooking", FALSE, FALSE, "Failed to cancel booking. Please try again.")
                  /\ UNCHANGED bookings
             ELSE /\ bookings' = [bookings EXCEPT ![id] = changed]
                  /\ res' = Result("cancelBooking", TRUE, FALSE, "Booking cancelled successfully")
  /\ UNCHANGED <<now, totalSpaces, waitlists, rules, calls, notifications, channel>>

(***************************************************************************)
(* BookingResolver.checkInBooking                                          *)
(***************************************************************************)
CheckInBooking(u, id) ==
  /\ IF ~Found(u, id)
     THEN /\ res' = Result("checkInBooking", FALSE, FALSE, "Booking not found")
          /\ UNCHANGED bookings
     ELSE LET booking == bookings[id]
              changed == [booking EXCEPT !.checkInTime = now, !.status = "active"]
          IN IF ~canCheckIn(booking)
             THEN /\ res' = Result("checkInBooking", FALSE, FALSE, "Check-in not available for this booking")
                  /\ UNCHANGED bookings
             ELSE IF UpdateError(changed) # "ok"
             THEN /\ res' = Result("checkInBooking", FALSE, FALSE, "Failed to check in. Please try again.")
                  /\ UNCHANGED bookings
             ELSE /\ bookings' = [bookings EXCEPT ![id] = changed]
                  /\ res' = Result("checkInBooking", TRUE, FALSE, "Check-in successful")
  /\ UNCHANGED <<now, totalSpaces, waitlists, rules, calls, notifications, channel>>

(***************************************************************************)
(* BookingResolver.checkOutBooking                                         *)
(***************************************************************************)
CheckOutBooking(u, id) ==
  /\ IF ~Found(u, id)
     THEN /\ res' = Result("checkOutBooking", FALSE, FALSE, "Booking not found")
          /\ UNCHANGED bookings
     ELSE LET booking == bookings[id]
              changed == [booking EXCEPT !.checkOutTime = now, !.status = "completed"]
          IN IF ~canCheckOut(booking)
             THEN /\ res' = Result("checkOutBooking", FALSE, FALSE, "Check-out not available for this booking")
                  /\ UNCHANGED bookings
             ELSE IF UpdateError(changed) # "ok"
             THEN /\ res' = Result("checkOutBooking", FALSE, FALSE, "Failed to check out. Please try again.")
                  /\ UNCHANGED bookings
             ELSE /\ bookings' = [bookings EXCEPT ![id] = changed]
                  /\ res' = Result("checkOutBooking", TRUE, FALSE, "Check-out successful")
  /\ UNCHANGED <<now, totalSpaces, waitlists, rules, calls, notifications, channel>>

(***************************************************************************)
(* BookingResolver.extendBooking                                           *)
(***************************************************************************)
ExtendBooking(u, id, newEndTime) ==
  /\ IF ~Found(u, id)
     THEN /\ res' = Result("extendBooking", FALSE, FALSE, "Booking not found")
          /\ UNCHANGED bookings
     ELSE LET booking == bookings[id]
              availability == checkAvailability(bookings, booking.endTime, newEndTime)
              additional == calculatePricing(booking.endTime, newEndTime)
              changed == [booking EXCEPT
                            !.endTime = newEndTime,
                            !.totalAmount = AppendedAmount(booking.totalAmount, additional),
                            !.extensionHistory = Append(booking.extensionHistory,
                               [originalEndTime |-> booking.endTime,
                                newEndTime |-> newEndTime,
                                additionalAmount |-> additional])]
          IN IF ~canBeExtended(booking)
             THEN /\ res' = Result("extendBooking", FALSE, FALSE, "Booking cannot be extended")
                  /\ UNCHANGED bookings
             ELSE IF newEndTime <= booking.endTime
             THEN /\ res' = Result("extendBooking", FALSE, FALSE, "New end time must be after current end time")
                  /\ UNCHANGED bookings
             ELSE IF ~availability.isAvailable
             THEN /\ res' = Result("extendBooking", FALSE, FALSE, "Extension not available due to conflicting bookings")
                  /\ UNCHANGED bookings
             ELSE IF UpdateError(changed) # "ok" \/ AppendedAmountError(additional) # "ok"
             THEN /\ res' = Result("extendBooking", FALSE, FALSE, "Failed to extend booking. Please try again.")
                  /\ UNCHANGED bookings
             ELSE /\ bookings' = [bookings EXCEPT ![id] = changed]
                  /\ res' = Result("extendBooking", TRUE, FALSE, "Booking extended successfully")
  /\ UNCHANGED <<now, totalSpaces, waitlists, rules, calls, notifications, channel>>

(***************************************************************************)
(* Waitlist entity and WaitlistResolver.  Entries are kept in insertion    *)
(* order, which is the order of createdAt.                                 *)
(***************************************************************************)
\* count of CONFIRMED/ACTIVE bookings with startTime < e and endTime > s
\* (LessThan / MoreThan), as joinWaitlist, convertWaitlistToBooking,
\* processWaitlist and processRecurringBookings query it
countConflicting(bs, s, e) ==
  Cardinality({i \in 1..Len(bs) :
     HoldsCapacity(bs[i]) /\ bs[i].startTime < e /\ bs[i].endTime > s})

\* the count of joinWaitlist without its filter on the status
activeCountAll(ws) == Len(ws)

\* the count of the ACTIVE entries of the parking
activeCount(ws) == Cardinality({i \in 1..Len(ws) : ws[i].status = "active"})

\* updateWaitlistPositions that writes nothing
updateWaitlistPositionsNone(ws) == ws

\* WaitlistResolver.updateWaitlistPositions: the ACTIVE entries, by
\* createdAt ascending, get positions 1..n
updateWaitlistPositions(ws) ==
  [i \in 1..Len(ws) |->
     IF ws[i].status = "active"
     THEN [ws[i] EXCEPT !.position =
             Cardinality({j \in 1..i : ws[j].status = "active"})]
     ELSE ws[i]]

\* Waitlist.markAsNotified
markAsNotified(w) ==
  [w EXCEPT !.status = "notified", !.notifiedAt = now, !.expiresAt = now + NotifyWindow]

\* Waitlist.markAsConverted
markAsConverted(w, bookingId) ==
  [w EXCEPT !.status = "converted", !.convertedBookingId = bookingId]

(***************************************************************************)
(* NotificationService.  channel.up tells whether firebaseMessaging.send   *)
(* succeeds for the user (the user has a token and Firebase accepts the    *)
(* message); channel.pushed is what the last sendPushNotification          *)
(* returned.  sendPushNotification catches what the channel throws and     *)
(* returns false; sendNotification awaits it together with the realtime    *)
(* notification, which does nothing without a WebSocket service, and the   *)
(* callers await sendNotification and drop its value.                      *)
(***************************************************************************)
ChannelInit == [up |-> TRUE, pushed |-> TRUE]

sendPushNotification(up) == up

\* sendNotification that lets the channel's error through
sendNotificationRethrows(up) ==
  [thrown |-> ~up, pushed |-> sendPushNotification(up)]

sendNotification(up) == [thrown |-> FALSE, pushed |-> sendPushNotification(up)]

ChannelError == "Error sending push notification"

\* what the caller of an operation gets when the operation awaits
\* sendNotification after it has computed the result r
AfterSend(r, s) ==
  IF s.thrown THEN Result(r.op, FALSE, TRUE, ChannelError) ELSE r

\* the operation with result r has called the notification service
HasSent(r) == r.ok \/ r.msg = ChannelError

\* the channel after an operation with result r
Pushed(r) ==
  IF HasSent(r) THEN [channel EXCEPT !.pushed = sendPushNotification(channel.up)]
  ELSE channel

\* WaitlistResolver.joinWaitlist
JoinWaitlist(u, s, e, requiredSpaces) ==
  LET existingWaitlist ==
        \E i \in 1..Len(waitlists) :
           /\ waitlists[i].userId = u
           /\ waitlists[i].status \in {"active", "notified"}
           /\ waitlists[i].desiredStartTime < e
           /\ waitlists[i].desiredEndTime > s
      available == totalSpaces - countConflicting(bookings, s, e)
      waitlist == [userId |-> u, status |-> "active",
                   position |-> activeCount(waitlists) + 1,
                   desiredStartTime |-> s, desiredEndTime |-> e,
                   requiredSpaces |-> requiredSpaces,
                   expiresAt |-> s + WaitlistExpiry,
                   notifiedAt |-> NULL, convertedBookingId |-> NULL]
  IN /\ IF s >= e
        THEN /\ res' = Result("joinWaitlist", FALSE, TRUE, "Start time must be before end time")
             /\ UNCHANGED waitlists
        ELSE IF s <= now
        THEN /\ res' = Result("joinWaitlist", FALSE, TRUE, "Start time must be in the future")
             /\ UNCHANGED waitlists
        ELSE IF existingWaitlist
        THEN /\ res' = Result("joinWaitlist", FALSE, TRUE, "You already have an active waitlist entry for this time slot")
             /\ UNCHANGED waitlists
        ELSE IF available >= requiredSpaces
        THEN /\ res' = Result("joinWaitlist", FALSE, TRUE, "Parking is currently available. Please book directly.")
             /\ UNCHANGED waitlists
        ELSE /\ waitlists' = Append(waitlists, waitlist)
             /\ res' = AfterSend(Result("joinWaitlist", TRUE, FALSE, "joined"),
                             sendNotification(channel.up))
     /\ channel' = Pushed(res')
     /\ UNCHANGED <<now, totalSpaces, bookings, rules, calls, notifications>>

\* WaitlistResolver.leaveWaitlist
LeaveWaitlist(u, wid) ==
  /\ IF ~(wid \in 1..Len(waitlists) /\ waitlists[wid].userId = u)
     THEN /\ res' = Result("leaveWaitlist", FALSE, TRUE, "Waitlist entry not found")
          /\ UNCHANGED waitlists
     ELSE IF waitlists[wid].status \notin {"active", "notified"}
     THEN /\ res' = Result("leaveWaitlist", FALSE, TRUE, "Cannot leave waitlist - entry is not active")
          /\ UNCHANGED waitlists
     ELSE /\ waitlists' = updateWaitlistPositions(
                             [waitlists EXCEPT ![wid].status = "cancelled"])
          /\ res' = AfterSend(Result("leaveWaitlist", TRUE, FALSE, "left"),
                             sendNotification(channel.up))
  /\ channel' = Pushed(res')
  /\ UNCHANGED <<now, totalSpaces, bookings, rules, calls, notifications>>

\* WaitlistResolver.convertWaitlistToBooking
ConvertWaitlistToBooking(u, wid) ==
  /\ IF ~(wid \in 1..Len(waitlists) /\ waitlists[wid].userId = u
          /\ waitlists[wid].status = "notified")
     THEN /\ res' = Result("convertWaitlistToBooking", FALSE, TRUE, "Waitlist entry not found or not available for conversion")
          /\ UNCHANGED <<bookings, waitlists>>
     ELSE LET waitlist == waitlists[wid]
              s == waitlist.desiredStartTime
              e == waitlist.desiredEndTime
              available == totalSpaces - countConflicting(bookings, s, e)
              totalAmount == ((e - s) * HourlyRate) \div MinutesPerHour
              booking == NewBooking(u, NoSpace, s, e, totalAmount, "confirmed", "pending")
          IN IF available < waitlist.requiredSpaces
             THEN /\ res' = Result("convertWaitlistToBooking", FALSE, TRUE, "Parking is no longer available")
                  /\ UNCHANGED <<bookings, waitlists>>
             ELSE IF InsertError(booking) # "ok"
             THEN /\ res' = Result("convertWaitlistToBooking", FALSE, TRUE, InsertError(booking))
                  /\ UNCHANGED <<bookings, waitlists>>
             ELSE /\ bookings' = Append(bookings, InsertedRow(booking))
                  /\ waitlists' = updateWaitlistPositions(
                        [waitlists EXCEPT ![wid] = markAsConverted(waitlist, Len(bookings) + 1)])
                  /\ res' = AfterSend(Result("convertWaitlistToBooking", TRUE, FALSE, "converted"),
                             sendNotification(channel.up))
  /\ channel' = Pushed(res')
  /\ UNCHANGED <<now, totalSpaces, rules, calls, notifications>>

\* the entry at index i comes before the one at index j in the order
\* { position: 'ASC' } of the query of processWaitlist (entries with the
\* same position in the order of their creation)
BeforeInQueue(ws, i, j) ==
  \/ ws[i].position < ws[j].position
  \/ ws[i].position = ws[j].position /\ i < j

\* the ACTIVE entries (their indices), in the order processWaitlist reads them
activeWaitlists(ws) ==
  LET S == {i \in 1..Len(ws) : ws[i].status = "active"}
  IN CHOOSE f \in [1..Cardinality(S) -> S] :
       \A a, b \in 1..Cardinality(S) : a < b => BeforeInQueue(ws, f[a], f[b])

\* processWaitlist notifies entry i whatever the free capacity is
hasRoomAlways(i) == waitlists[i].requiredSpaces >= 0

\* the test of processWaitlist on entry i: availableSpaces >= requiredSpaces
hasRoom(i) ==
  totalSpaces - countConflicting(bookings,
      waitlists[i].desiredStartTime, waitlists[i].desiredEndTime)
    >= waitlists[i].requiredSpaces

\* NotificationService.sendWaitlistAvailable(userId, parkingName, availableUntil)
WaitlistAvailable(u, availableUntil) ==
  [userId |-> u, action |-> "waitlist_available", availableUntil |-> availableUntil]

\* SchedulerService.processWaitlist: every ACTIVE entry for which the
\* parking has enough free units on the desired interval is notified.
\* The tick returns nothing; res.sent lists what it handed to the
\* notification service, in the order of the calls.
ProcessWaitlist ==
  LET promoted == SelectSeq(activeWaitlists(waitlists), hasRoom)
      \* an error of sendWaitlistAvailable ends the loop in the catch of the
      \* tick, after the entry it was sent for has been saved
      reached == IF sendNotification(channel.up).thrown /\ Len(promoted) > 0
                 THEN 1 ELSE Len(promoted)
  IN /\ waitlists' =
          [i \in 1..Len(waitlists) |->
             IF \E k \in 1..reached : promoted[k] = i
             THEN markAsNotified(waitlists[i])
             ELSE waitlists[i]]
     /\ res' = [op |-> "processWaitlist", ok |-> TRUE, thrown |-> FALSE, msg |-> "",
                sent |-> [k \in 1..reached |->
                            WaitlistAvailable(waitlists[promoted[k]].userId,
                                              now + NotifyWindow)]]
     /\ channel' = IF reached > 0
                    THEN [channel EXCEPT !.pushed = sendPushNotification(channel.up)]
                    ELSE channel
     /\ UNCHANGED <<now, totalSpaces, bookings, rules, calls, notifications>>

\* markAsExpired that leaves the status as it is
markAsExpiredKept(w) == w

\* Waitlist.markAsExpired
markAsExpired(w) == [w EXCEPT !.status = "expired"]

\* SchedulerService.cleanupExpiredWaitlistEntries
CleanupExpiredWaitlistEntries ==
  /\ waitlists' =
       [i \in 1..Len(waitlists) |->
          IF /\ waitlists[i].status \in {"active", "notified"}
             /\ waitlists[i].expiresAt < now
          THEN markAsExpired(waitlists[i])
          ELSE waitlists[i]]
  /\ res' = Result("cleanupExpiredWaitlistEntries", TRUE, FALSE, "")
  /\ UNCHANGED <<now, totalSpaces, bookings, rules, calls, notifications, channel>>

(***************************************************************************)
(* RecurringBooking entity, RecurringBookingResolver.createRecurringBooking *)
(* and SchedulerService.processRecurringBookings.  Dates are day numbers;  *)
(* day 0 is a Monday.  Times of day are minutes since midnight.            *)
(* Day 0 is 2024-01-01 and the server's time zone has no daylight saving   *)
(* and is not west of UTC, so that a 'date' column and the local calendar  *)
(* fields of the Date made from it name the same day.                      *)
(***************************************************************************)
\* months of the calendar the exploration looks at, counted from January 2024
MaxMonths == 8

\* the number of days of month mi (0 = January 2024)
MonthLength(mi) ==
  LET m == mi % 12
      y == 2024 + mi \div 12
  IN IF m = 1 THEN (IF y % 4 = 0 THEN 29 ELSE 28)
     ELSE IF m \in {3, 5, 8, 10} THEN 30 ELSE 31

RECURSIVE DaysBeforeMonth(_)
\* the day number of the first day of month mi
DaysBeforeMonth(mi) ==
  IF mi = 0 THEN 0 ELSE DaysBeforeMonth(mi - 1) + MonthLength(mi - 1)

\* Date.getMonth() (with the years counted in) and Date.getDate() of day d
MonthIndex(d) ==
  CHOOSE mi \in 0..MaxMonths : DaysBeforeMonth(mi) <= d /\ d < DaysBeforeMonth(mi + 1)

DayOfMonth(d) == d - DaysBeforeMonth(MonthIndex(d)) + 1

\* Date.setMonth(mi) on day d: the day of the month is kept, and a day the
\* month does not have runs over into the next month (31 February 2024 is
\* 2 March 2024)
SetMonth(d, mi) == DaysBeforeMonth(mi) + DayOfMonth(d) - 1

\* Date.getDay(): 0 = Sunday
DayOfWeek(d) == (d + 1) % 7

\* the day after d, whatever its day of the week
NextDayWhereFirst(d, days) == d + 1

RECURSIVE NextDayWhere(_, _)
\* do { current.setDate(current.getDate() + 1) } while (!(keep day))
NextDayWhere(d, days) ==
  IF DayOfWeek(d + 1) \in days THEN d + 1 ELSE NextDayWhere(d + 1, days)

\* this.customPattern?.interval || 1
IntervalOrOne(r) == IF r.interval = NULL \/ r.interval = 0 THEN 1 ELSE r.interval

\* RecurringBooking.calculateNextBookingDate
calculateNextBookingDate(r) ==
  CASE r.pattern = "daily" -> r.nextBookingDate + IntervalOrOne(r)
    [] r.pattern = "weekly" -> r.nextBookingDate + 7 * IntervalOrOne(r)
    [] r.pattern = "monthly" ->
         SetMonth(r.nextBookingDate, MonthIndex(r.nextBookingDate) + IntervalOrOne(r))
    [] r.pattern = "weekdays" -> NextDayWhere(r.nextBookingDate, 1..5)
    [] r.pattern = "weekends" -> NextDayWhere(r.nextBookingDate, {0, 6})
    [] r.pattern = "custom" ->
         IF r.hasDaysOfWeek THEN NextDayWhere(r.nextBookingDate, r.daysOfWeek)
         ELSE r.nextBookingDate + 1

\* RecurringBooking.updateNextBookingDate
updateNextBookingDate(r) == [r EXCEPT !.nextBookingDate = calculateNextBookingDate(r)]

\* RecurringBooking.addBookingToHistory(bookingId, 'created')
addBookingToHistory(r, bookingId) ==
  [r EXCEPT !.bookingHistory = Append(r.bookingHistory,
                [bookingId |-> bookingId, date |-> r.nextBookingDate, status |-> "created"]),
            !.completedOccurrences = r.completedOccurrences + 1]

\* RecurringBooking.addFailureToHistory
addFailureToHistory(r, reason) ==
  [r EXCEPT !.failureHistory = Append(r.failureHistory, reason)]

\* A row of recurring_bookings.  customPattern is the pair interval (NULL
\* when absent) and daysOfWeek (hasDaysOfWeek tells whether it is there);
\* endDate and maxOccurrences are NULL when absent.
NewRecurringBooking(u, pattern, startTime, endTime, startDate, endDate, maxOccurrences, basePrice) ==
  [userId |-> u, status |-> "active", pattern |-> pattern,
   interval |-> NULL, hasDaysOfWeek |-> FALSE, daysOfWeek |-> {},
   startTime |-> startTime, endTime |-> endTime,
   startDate |-> startDate, endDate |-> endDate, nextBookingDate |-> startDate,
   maxOccurrences |-> maxOccurrences,
   basePrice |-> basePrice,
   completedOccurrences |-> 0,
   bookingHistory |-> <<>>, failureHistory |-> <<>>]

\* RecurringBookingResolver.createRecurringBooking; startDate and endDate
\* are the days whose midnight is the Date passed in (endDate NULL when
\* not given), duration the hours passed in.  The resolver takes no
\* customPattern.
CreateRecurringBooking(u, pattern, startTime, endTime, startDate, duration, endDate, maxOccurrences) ==
  LET recurringBooking ==
        NewRecurringBooking(u, pattern, startTime, endTime, startDate, endDate,
                            maxOccurrences, duration * HourlyRate)
  IN /\ IF startDate * MinutesPerDay <= now
        THEN /\ res' = Result("createRecurringBooking", FALSE, TRUE, "Start date must be in the future")
             /\ UNCHANGED rules
        ELSE IF endDate # NULL /\ endDate <= startDate
        THEN /\ res' = Result("createRecurringBooking", FALSE, TRUE, "End date must be after start date")
             /\ UNCHANGED rules
        ELSE IF maxOccurrences # NULL /\ maxOccurrences < 0
        THEN /\ res' = Result("createRecurringBooking", FALSE, TRUE, "Max occurrences must be greater than 0")
             /\ UNCHANGED rules
        ELSE /\ rules' = Append(rules, recurringBooking)
             /\ res' = AfterSend(Result("createRecurringBooking", TRUE, FALSE, "created"),
                             sendNotification(channel.up))
     /\ channel' = Pushed(res')
     /\ UNCHANGED <<now, totalSpaces, bookings, waitlists, calls, notifications>>

\* the rule of the caller with this id, as findOne({ id, userId }) finds it
FoundRule(u, rid) == rid \in 1..Len(rules) /\ rules[rid].userId = u

\* RecurringBookingResolver.pauseRecurringBooking
PauseRecurringBooking(u, rid) ==
  /\ IF ~FoundRule(u, rid)
     THEN /\ res' = Result("pauseRecurringBooking", FALSE, TRUE, "Recurring booking not found")
          /\ UNCHANGED rules
     ELSE IF rules[rid].status # "active"
     THEN /\ res' = Result("pauseRecurringBooking", FALSE, TRUE, "Can only pause active recurring bookings")
          /\ UNCHANGED rules
     ELSE /\ rules' = [rules EXCEPT ![rid].status = "paused"]
          /\ res' = AfterSend(Result("pauseRecurringBooking", TRUE, FALSE, ""),
                             sendNotification(channel.up))
  /\ channel' = Pushed(res')
  /\ UNCHANGED <<now, totalSpaces, bookings, waitlists, calls, notifications>>

\* RecurringBookingResolver.resumeRecurringBooking: resume(), then
\* updateNextBookingDate(), then save
ResumeRecurringBooking(u, rid) ==
  /\ IF ~FoundRule(u, rid)
     THEN /\ res' = Result("resumeRecurringBooking", FALSE, TRUE, "Recurring booking not found")
          /\ UNCHANGED rules
     ELSE IF rules[rid].status # "paused"
     THEN /\ res' = Result("resumeRecurringBooking", FALSE, TRUE, "Can only resume paused recurring bookings")
          /\ UNCHANGED rules
     ELSE /\ rules' = [rules EXCEPT ![rid] =
                          updateNextBookingDate([rules[rid] EXCEPT !.status = "active"])]
          /\ res' = AfterSend(Result("resumeRecurringBooking", TRUE, FALSE, ""),
                             sendNotification(channel.up))
  /\ channel' = Pushed(res')
  /\ UNCHANGED <<now, totalSpaces, bookings, waitlists, calls, notifications>>

\* RecurringBookingResolver.cancelRecurringBooking
CancelRecurringBooking(u, rid) ==
  /\ IF ~FoundRule(u, rid)
     THEN /\ res' = Result("cancelRecurringBooking", FALSE, TRUE, "Recurring booking not found")
          /\ UNCHANGED rules
     ELSE IF rules[rid].status = "cancelled"
     THEN /\ res' = Result("cancelRecurringBooking", FALSE, TRUE, "Recurring booking is already cancelled")
          /\ UNCHANGED rules
     ELSE /\ rules' = [rules EXCEPT ![rid].status = "cancelled"]
          /\ res' = AfterSend(Result("cancelRecurringBooking", TRUE, FALSE, ""),
                             sendNotification(channel.up))
  /\ channel' = Pushed(res')
  /\ UNCHANGED <<now, totalSpaces, bookings, waitlists, calls, notifications>>

\* the rule is selected by the query of processRecurringBookings
dueRecurringBooking(r) ==
  r.status = "active" /\ r.nextBookingDate * MinutesPerDay < now

\* notificationService.sendNotification(userId, { title: 'Recurring Booking Created', ... })
RecurringBookingCreated(u) == [userId |-> u, title |-> "Recurring Booking Created"]

\* One pass of the loop body of processRecurringBookings over rule r with
\* the bookings bs stored so far: the bookings and the rule afterwards,
\* and what was handed to the notification service.
ProcessRule(bs, r) ==
  LET startTime == r.nextBookingDate * MinutesPerDay + r.startTime
      endTime == r.nextBookingDate * MinutesPerDay + r.endTime
      booking == NewBooking(r.userId, NoSpace, startTime, endTime, r.basePrice,
                            "confirmed", "pending")
  IN IF countConflicting(bs, startTime, endTime) > 0
     THEN [bs |-> bs, sent |-> <<>>,
           rule |-> updateNextBookingDate(addFailureToHistory(r, "Time slot not available"))]
     ELSE IF InsertError(booking) # "ok"
     THEN [bs |-> bs, sent |-> <<>>,
           rule |-> addFailureToHistory(r, InsertError(booking))]
     ELSE LET saved == updateNextBookingDate(addBookingToHistory(r, Len(bs) + 1))
          IN [bs |-> Append(bs, InsertedRow(booking)),
              sent |-> <<RecurringBookingCreated(r.userId)>>,
              rule |-> IF sendNotification(channel.up).thrown
                       THEN addFailureToHistory(saved, ChannelError)
                       ELSE saved]

RECURSIVE ProcessRules(_, _, _, _)
\* the for loop of processRecurringBookings from rule i on
ProcessRules(bs, rs, sent, i) ==
  IF i > Len(rs) THEN [bs |-> bs, rs |-> rs, sent |-> sent]
  ELSE IF ~dueRecurringBooking(rs[i]) THEN ProcessRules(bs, rs, sent, i + 1)
  ELSE LET step == ProcessRule(bs, rs[i])
       IN ProcessRules(step.bs, [rs EXCEPT ![i] = step.rule], sent \o step.sent, i + 1)

\* SchedulerService.processRecurringBookings.  The tick returns nothing;
\* res.at is the instant it ran at and res.sent what it handed to the
\* notification service.
ProcessRecurringBookings ==
  LET out == ProcessRules(bookings, rules, <<>>, 1)
  IN /\ \A i \in 1..Len(rules) :
          /\ Len(rules[i].failureHistory) < MaxHistory
          /\ Len(rules[i].bookingHistory) < MaxHistory
     /\ bookings' = out.bs
     /\ rules' = out.rs
     /\ res' = [op |-> "processRecurringBookings", ok |-> TRUE, thrown |-> FALSE,
                msg |-> "", at |-> now, sent |-> out.sent]
     /\ channel' = IF out.sent # <<>>
                    THEN [channel EXCEPT !.pushed = sendPushNotification(channel.up)]
                    ELSE channel
     /\ UNCHANGED <<now, totalSpaces, waitlists, calls, notifications>>

(***************************************************************************)
(* The clock.                                                              *)
(***************************************************************************)
\* the clock goes on to a later one of the given instants
Elapse(instants) ==
  /\ \E t \in instants : t > now /\ now' = t
  /\ UNCHANGED <<totalSpaces, bookings, waitlists, rules, res, calls, notifications, channel>>

Tick == Elapse(Clock)

(***************************************************************************)
(* The store at start: reservations already confirmed, within capacity     *)
(* and with no unit held twice at the same time.                           *)
(***************************************************************************)
SeedIntervals == {<<s, e>> \in Bnd \X Bnd : s < e}

SeedBooking(sp, s, e) ==
  [userId |-> "A", spaceId |-> sp, startTime |-> s, endTime |-> e,
   status |-> "confirmed", paymentStatus |-> "pending",
   totalAmount |-> calculatePricing(s, e),
   checkInTime |-> NULL, checkOutTime |-> NULL, refundAmount |-> NULL,
   extensionHistory |-> <<>>, createdAt |-> BeforeStart]

NoUnitHeldTwice(bs) ==
  \A i, j \in 1..Len(bs) :
    (i < j /\ HoldsCapacity(bs[i]) /\ HoldsCapacity(bs[j])
       /\ bs[i].spaceId = bs[j].spaceId
       /\ Overlaps(bs[i].startTime, bs[i].endTime, bs[j].startTime, bs[j].endTime))
    => FALSE

\* Seeds are listed in the order (startTime, endTime, spaceId).
SeedBefore(a, b) ==
  \/ a.startTime < b.startTime
  \/ a.startTime = b.startTime /\ a.endTime < b.endTime
  \/ a.startTime = b.startTime /\ a.endTime = b.endTime /\ a.spaceId < b.spaceId

SeedStores(cap, max) ==
  LET recs == {SeedBooking(sp, iv[1], iv[2]) : sp \in 1..cap, iv \in SeedIntervals}
  IN {bs \in UNION {[1..n -> recs] : n \in 0..max} :
        /\ \A i \in 1..Len(bs) - 1 : SeedBefore(bs[i], bs[i + 1])
        /\ NoUnitHeldTwice(bs)}

(***************************************************************************)
(* The booking engine: BookingResolver over a store that holds up to       *)
(* MaxSeed confirmed reservations at start.                                *)
(***************************************************************************)
Init ==
  /\ now = 0
  /\ totalSpaces \in 1..MaxSpaces
  /\ bookings \in SeedStores(totalSpaces, MaxSeed)
  /\ waitlists = <<>>
  /\ rules = <<>>
  /\ res = Result("none", TRUE, FALSE, "")
  /\ calls = <<>>
  /\ notifications = <<>>
  /\ channel = ChannelInit

Next ==
  \/ Tick
  \/ NewRows < MaxRows /\ \E u \in Users, sp \in 0..MaxSpaces, s \in Bnd, e \in Bnd :
        CreateBooking(u, sp, s, e)
  \/ \E u \in Users, id \in 1..MaxBookings : CancelBooking(u, id)
  \/ \E u \in Users, id \in 1..MaxBookings : CheckInBooking(u, id)
  \/ \E u \in Users, id \in 1..MaxBookings : CheckOutBooking(u, id)
  \/ \E u \in Users, id \in 1..MaxBookings, e \in Bnd : ExtendBooking(u, id, e)

Spec == Init /\ [][Next]_vars

(***************************************************************************)
(* The lifecycle of reservations that are already confirmed: a store with  *)
(* up to MaxHeld of them, and the operations on an existing reservation.   *)
(***************************************************************************)
InitLifecycle ==
  /\ now = 0
  /\ totalSpaces \in 1..MaxSpaces
  /\ bookings \in SeedStores(totalSpaces, MaxHeld)
  /\ waitlists = <<>>
  /\ rules = <<>>
  /\ res = Result("none", TRUE, FALSE, "")
  /\ calls = <<>>
  /\ notifications = <<>>
  /\ channel = ChannelInit

NextLifecycle ==
  \/ Tick
  \/ \E u \in Users, id \in 1..MaxHeld : CancelBooking(u, id)
  \/ \E u \in Users, id \in 1..MaxHeld : CheckInBooking(u, id)
  \/ \E u \in Users, id \in 1..MaxHeld : CheckOutBooking(u, id)
  \/ \E u \in Users, id \in 1..MaxHeld, e \in Bnd : ExtendBooking(u, id, e)
  \/ \E iv \in SeedIntervals : CheckAvailability(iv[1], iv[2])

SpecLifecycle == InitLifecycle /\ [][NextLifecycle]_vars

(***************************************************************************)
(* Booking and waitlist together: requests that name no unit, the          *)
(* waitlist of the parking and the waitlist tick of the scheduler.         *)
(***************************************************************************)
MaxEntries == 2

InitEndToEnd ==
  /\ now = 0
  /\ totalSpaces \in 1..MaxSpaces
  /\ bookings \in SeedStores(totalSpaces, MaxSeed)
  /\ waitlists = <<>>
  /\ rules = <<>>
  /\ res = Result("none", TRUE, FALSE, "")
  /\ calls = <<>>
  /\ notifications = <<>>
  /\ channel = ChannelInit

NextEndToEnd ==
  \/ Tick
  \/ NewRows < MaxEntries /\ \E u \in Users, iv \in SeedIntervals :
        CreateBooking(u, NoSpace, iv[1], iv[2])
  \/ \E u \in Users, id \in 1..MaxBookings : CancelBooking(u, id)
  \/ NewRows < MaxEntries /\ \E u \in Users, iv \in SeedIntervals :
        JoinWaitlist(u, iv[1], iv[2], 1)
  \/ \E u \in Users, wid \in 1..MaxEntries : LeaveWaitlist(u, wid)
  \/ ProcessWaitlist
  \/ NewRows < MaxEntries /\ \E u \in Users, wid \in 1..MaxEntries :
        ConvertWaitlistToBooking(u, wid)

SpecEndToEnd == InitEndToEnd /\ [][NextEndToEnd]_vars

(***************************************************************************)
(* The scheduler: the jobs SchedulerService.start registers with cron      *)
(* that read or write reservations and waitlist entries, next to the       *)
(* requests that give them something to work on.  cron fires every job     *)
(* again and again and the clock goes on, which is the fairness of         *)
(* FairScheduler.                                                          *)
(***************************************************************************)
\* days on which a rule of the exploration starts, and its time of day
RuleDays == {1, 2}
RuleStartTime == 540
RuleEndTime == 600

InitScheduler ==
  /\ now = 0
  /\ totalSpaces \in 1..MaxSpaces
  /\ bookings \in SeedStores(totalSpaces, MaxSeed)
  /\ waitlists = <<>>
  /\ rules = <<>>
  /\ res = Result("none", TRUE, FALSE, "")
  /\ calls = <<>>
  /\ notifications = <<>>
  /\ channel = ChannelInit

NextScheduler ==
  \/ Tick
  \/ \E u \in Users, id \in 1..MaxSeed : CheckInBooking(u, id)
  \/ NewRows < MaxRows /\ \E u \in Users, iv \in SeedIntervals :
        JoinWaitlist(u, iv[1], iv[2], 1)
  \/ NewRows < MaxRows /\ \E d \in RuleDays :
        CreateRecurringBooking("A", "daily", RuleStartTime, RuleEndTime, d, 1, NULL, NULL)
  \/ ProcessRecurringBookings
  \/ ProcessWaitlist
  \/ CleanupExpiredWaitlistEntries

SpecScheduler == InitScheduler /\ [][NextScheduler]_vars

FairScheduler ==
  /\ SpecScheduler
  /\ WF_vars(Tick)
  /\ WF_vars(ProcessRecurringBookings)
  /\ WF_vars(ProcessWaitlist)
  /\ WF_vars(CleanupExpiredWaitlistEntries)

(***************************************************************************)
(* The waitlist of a parking whose units are taken: up to MaxTaken         *)
(* confirmed reservations at start, up to MaxQueue entries joining,        *)
(* leaving, being notified by the waitlist tick, converted and expired by  *)
(* the cleanup, while cancellations free capacity.                         *)
(***************************************************************************)
MaxQueue == 2
MaxTaken == 1

InitWaitlist ==
  /\ now = 0
  /\ totalSpaces \in 1..MaxSpaces
  /\ bookings \in SeedStores(totalSpaces, MaxTaken)
  /\ waitlists = <<>>
  /\ rules = <<>>
  /\ res = Result("none", TRUE, FALSE, "")
  /\ calls = <<>>
  /\ notifications = <<>>
  /\ channel = ChannelInit

NextWaitlist ==
  \/ Tick
  \/ \E id \in 1..MaxTaken : CancelBooking("A", id)
  \/ Len(waitlists) < MaxQueue
       /\ \E u \in Users, s \in Bnd, e \in Bnd, requiredSpaces \in 1..MaxSpaces :
             JoinWaitlist(u, s, e, requiredSpaces)
  \/ \E u \in Users, wid \in 1..MaxQueue : LeaveWaitlist(u, wid)
  \/ \E u \in Users, wid \in 1..MaxQueue : ConvertWaitlistToBooking(u, wid)
  \/ ProcessWaitlist
  \/ CleanupExpiredWaitlistEntries

SpecWaitlist == InitWaitlist /\ [][NextWaitlist]_vars

(***************************************************************************)
(* The expiry of waitlist entries.  The clock runs past expiresAt of the   *)
(* entries: an ACTIVE entry expires 24 hours after its desired start, a    *)
(* NOTIFIED one 15 minutes after the notification.  cron runs the cleanup  *)
(* every day at 02:00 and the clock goes on: the fairness of FairExpiry.   *)
(* The exploration ends at Horizon, the last instant of the clock; entries *)
(* are created and notified before it.                                     *)
(***************************************************************************)
\* day 0 00:00, day 2 07:00, day 3 09:10 (24h10 after 09:00 of day 2,
\* 23h10 after 10:00), day 3 11:20
ExpiryClock == {0, 3300, 4870, 5000}
Horizon == CHOOSE t \in ExpiryClock : \A other \in ExpiryClock : other <= t

InitExpiry ==
  /\ now = 0
  /\ totalSpaces \in 1..MaxSpaces
  /\ bookings \in SeedStores(totalSpaces, MaxTaken)
  /\ waitlists = <<>>
  /\ rules = <<>>
  /\ res = Result("none", TRUE, FALSE, "")
  /\ calls = <<>>
  /\ notifications = <<>>
  /\ channel = ChannelInit

NextExpiry ==
  \/ Elapse(ExpiryClock)
  \/ \E id \in 1..MaxTaken : CancelBooking("A", id)
  \/ Len(waitlists) < MaxQueue /\ now < Horizon
       /\ \E u \in Users, iv \in SeedIntervals : JoinWaitlist(u, iv[1], iv[2], 1)
  \/ \E u \in Users, wid \in 1..MaxQueue : LeaveWaitlist(u, wid)
  \/ now < Horizon /\ ProcessWaitlist
  \/ CleanupExpiredWaitlistEntries

SpecExpiry == InitExpiry /\ [][NextExpiry]_vars

FairExpiry ==
  /\ SpecExpiry
  /\ WF_vars(Elapse(ExpiryClock))
  /\ WF_vars(CleanupExpiredWaitlistEntries)

(***************************************************************************)
(* Recurring bookings: rules are created, paused, resumed and cancelled by *)
(* their owner, and the recurrence tick of the scheduler runs over them    *)
(* while the clock goes from day 0 to day 4.                               *)
(***************************************************************************)
MaxRules == 1
\* day 0 00:00, day 2 07:00, day 4 07:00
RecurrenceClock == {0, 3300, 6060}
RulePatterns == {"daily", "weekly"}
\* the endDate (a day) and the maxOccurrences a rule is created with
RuleEndDates == {NULL, 3}
RuleMaxOccurrences == {NULL, 1}
\* a rule is resumed as long as its nextBookingDate is not after this day
MaxRuleDate == 4

InitRecurrence ==
  /\ now = 0
  /\ totalSpaces \in 1..MaxSpaces
  /\ bookings \in SeedStores(totalSpaces, MaxSeed)
  /\ waitlists = <<>>
  /\ rules = <<>>
  /\ res = Result("none", TRUE, FALSE, "")
  /\ calls = <<>>
  /\ notifications = <<>>
  /\ channel = ChannelInit

NextRecurrence ==
  \/ Elapse(RecurrenceClock)
  \/ Len(rules) < MaxRules
       /\ \E pattern \in RulePatterns, d \in RuleDays, endDate \in RuleEndDates,
             maxOccurrences \in RuleMaxOccurrences :
             CreateRecurringBooking("A", pattern, RuleStartTime, RuleEndTime, d, 1,
                                    endDate, maxOccurrences)
  \/ \E u \in Users, rid \in 1..MaxRules : PauseRecurringBooking(u, rid)
  \/ \E u \in Users, rid \in 1..MaxRules :
        /\ rid <= Len(rules) => rules[rid].nextBookingDate <= MaxRuleDate
        /\ ResumeRecurringBooking(u, rid)
  \/ \E u \in Users, rid \in 1..MaxRules : CancelRecurringBooking(u, rid)
  \/ ProcessRecurringBookings

SpecRecurrence == InitRecurrence /\ [][NextRecurrence]_vars

(***************************************************************************)
(* The dates of a rule.  calculateNextBookingDate is a function of the     *)
(* rule's pattern, nextBookingDate and customPattern: a rule is drawn from *)
(* the values below and updateNextBookingDate is applied to it again and   *)
(* again.                                                                  *)
(***************************************************************************)
Patterns == {"daily", "weekly", "monthly", "weekdays", "weekends", "custom"}
\* Monday 1 January 2024 to Sunday 7 January, and 30 and 31 January
DateInputs == 0..6 \cup {29, 30}
IntervalInputs == {NULL, 1, 2}
\* customPattern.daysOfWeek: Monday and Wednesday; Sunday; Tuesday, Friday, Saturday
DaysOfWeekInputs == {{1, 3}, {0}, {2, 5, 6}}
\* updateNextBookingDate is applied as long as the date is not after MaxDate
MaxDate == 75

RuleInputs ==
  {[NewRecurringBooking("A", p, RuleStartTime, RuleEndTime, d, NULL, NULL, HourlyRate)
      EXCEPT !.interval = n] :
     p \in {"daily", "weekly", "monthly"}, d \in DateInputs, n \in IntervalInputs}
  \cup
  {NewRecurringBooking("A", p, RuleStartTime, RuleEndTime, d, NULL, NULL, HourlyRate) :
     p \in {"weekdays", "weekends", "custom"}, d \in DateInputs}
  \cup
  {[NewRecurringBooking("A", "custom", RuleStartTime, RuleEndTime, d, NULL, NULL, HourlyRate)
      EXCEPT !.hasDaysOfWeek = TRUE, !.daysOfWeek = days] :
     d \in DateInputs, days \in DaysOfWeekInputs}

\* rule.updateNextBookingDate(); the caller keeps the date the rule had
UpdateNextBookingDate(rid) ==
  /\ rules' = [rules EXCEPT ![rid] = updateNextBookingDate(rules[rid])]
  /\ res' = [op |-> "updateNextBookingDate", ok |-> TRUE, thrown |-> FALSE, msg |-> "",
             previous |-> rules[rid].nextBookingDate]
  /\ UNCHANGED <<now, totalSpaces, bookings, waitlists, calls, notifications, channel>>

InitNextDate ==
  /\ now = 0
  /\ totalSpaces = 1
  /\ bookings = <<>>
  /\ waitlists = <<>>
  /\ rules \in {<<r>> : r \in RuleInputs}
  /\ res = Result("none", TRUE, FALSE, "")
  /\ calls = <<>>
  /\ notifications = <<>>
  /\ channel = ChannelInit

NextNextDate == rules[1].nextBookingDate <= MaxDate /\ UpdateNextBookingDate(1)

SpecNextDate == InitNextDate /\ [][NextNextDate]_vars

(***************************************************************************)
(* Notification jobs.  A row of the notifications table carries its own    *)
(* delivery state; the scheduler's dispatch tick (every minute) sends the  *)
(* PENDING rows whose scheduledFor is past and records the outcome with    *)
(* markAsSent or markAsFailed.  Whether the push channel delivers is not   *)
(* decided by the program: the tick takes the set of rows it delivers.     *)
(***************************************************************************)
RECURSIVE Pow(_, _)
Pow(b, e) == IF e <= 0 THEN 1 ELSE b * Pow(b, e - 1)

NewNotification(u, scheduledFor, expiresAt, maxRetries) ==
  [userId |-> u, status |-> "pending", scheduledFor |-> scheduledFor,
   expiresAt |-> expiresAt, sentAt |-> NULL, readAt |-> NULL, retryCount |-> 0,
   maxRetries |-> maxRetries, nextRetryAt |-> NULL, failureReason |-> ""]

\* Notification.isExpired, read at the instant t
NotificationIsExpired(n, t) == IF n.expiresAt # NULL THEN t > n.expiresAt ELSE FALSE

canRetry(n, t) ==
  /\ n.status = "failed"
  /\ n.retryCount < n.maxRetries
  /\ ~NotificationIsExpired(n, t)

markAsSent(n, t) == [n EXCEPT !.status = "sent", !.sentAt = t]

BackoffMinutesFlat(retryCount) == 1

BackoffMinutes(retryCount) == Pow(5, retryCount - 1)

markAsFailed(n, reason, t) ==
  LET failed == [n EXCEPT !.status = "failed", !.failureReason = reason,
                          !.retryCount = n.retryCount + 1]
  IN IF canRetry(failed, t)
       THEN [failed EXCEPT !.nextRetryAt = t + BackoffMinutes(failed.retryCount)]
       ELSE failed

resetForRetry(n) ==
  [n EXCEPT !.status = "pending", !.failureReason = "", !.nextRetryAt = NULL]

\* the rows the dispatch tick selects: PENDING with scheduledFor before now
\* (a row without scheduledFor never satisfies the comparison); res.sent is
\* the set of rows handed to sendPushNotification
IsPendingNotification(n) ==
  n.status = "pending" /\ n.scheduledFor # NULL /\ n.scheduledFor < now

ProcessPendingNotifications(delivered) ==
  /\ notifications' =
       [i \in 1..Len(notifications) |->
          LET n == notifications[i]
          IN IF IsPendingNotification(n)
               THEN IF i \in delivered
                      THEN markAsSent(n, now)
                      ELSE markAsFailed(n, "Failed to send push notification", now)
               ELSE n]
  /\ res' = [op |-> "processPendingNotifications", ok |-> TRUE, thrown |-> FALSE,
             msg |-> "", at |-> now,
             sent |-> {i \in 1..Len(notifications) :
                         IsPendingNotification(notifications[i])}]
  /\ UNCHANGED <<now, totalSpaces, bookings, waitlists, rules, calls, channel>>

\* Notification.resetForRetry applied to a stored FAILED row and saved
ResetForRetry(i) ==
  /\ i \in 1..Len(notifications)
  /\ notifications[i].status = "failed"
  /\ notifications' = [notifications EXCEPT ![i] = resetForRetry(notifications[i])]
  /\ res' = [op |-> "resetForRetry", ok |-> TRUE, thrown |-> FALSE, msg |-> "",
             at |-> now]
  /\ UNCHANGED <<now, totalSpaces, bookings, waitlists, rules, calls, channel>>

(***************************************************************************)
(* Backoff: one stored job, failed and reset again and again.  The job's   *)
(* retry limit and expiry are drawn from small sets; a job is reset only   *)
(* while its retryCount is below MaxRetryCount.                            *)
(***************************************************************************)
MaxJobs == 1

MaxRetryCount == 4

RetryLimits == {1, 3, 4}

JobExpiries == {NULL, 3400}

InitBackoff ==
  /\ now = 0
  /\ totalSpaces = 1
  /\ bookings = <<>>
  /\ waitlists = <<>>
  /\ rules = <<>>
  /\ res = Result("none", TRUE, FALSE, "")
  /\ calls = <<>>
  /\ \E m \in RetryLimits, x \in JobExpiries :
       notifications = <<NewNotification("A", BeforeStart, x, m)>>
  /\ channel = ChannelInit

NextBackoff ==
  \/ Tick
  \/ \E delivered \in SUBSET (1..MaxJobs) : ProcessPendingNotifications(delivered)
  \/ \E i \in 1..MaxJobs :
       /\ i <= Len(notifications) => notifications[i].retryCount < MaxRetryCount
       /\ ResetForRetry(i)

SpecBackoff == InitBackoff /\ [][NextBackoff]_vars

(***************************************************************************)
(* NotificationResolver: the owner of a notification marks it read, one by *)
(* one or all at once, and reading one with getNotification marks it too.  *)
(***************************************************************************)
markAsRead(n, t) == [n EXCEPT !.status = "read", !.readAt = t]

FoundNotification(u, i) ==
  i \in 1..Len(notifications) /\ notifications[i].userId = u

MarkNotificationAsRead(u, i) ==
  /\ IF ~FoundNotification(u, i)
       THEN /\ res' = Result("markNotificationAsRead", FALSE, TRUE, "Notification not found")
            /\ UNCHANGED notifications
       ELSE /\ notifications' = [notifications EXCEPT ![i] = markAsRead(notifications[i], now)]
            /\ res' = Result("markNotificationAsRead", TRUE, FALSE, "")
  /\ UNCHANGED <<now, totalSpaces, bookings, waitlists, rules, calls, channel>>

\* the statuses markAllNotificationsAsRead and the unread count take as unread
UnreadStatuses == {"pending", "sent", "delivered"}

MarkAllNotificationsAsRead(u) ==
  /\ notifications' =
       [i \in 1..Len(notifications) |->
          IF notifications[i].userId = u /\ notifications[i].status \in UnreadStatuses
            THEN [notifications[i] EXCEPT !.status = "read", !.readAt = now]
            ELSE notifications[i]]
  /\ res' = Result("markAllNotificationsAsRead", TRUE, FALSE, "")
  /\ UNCHANGED <<now, totalSpaces, bookings, waitlists, rules, calls, channel>>

GetNotification(u, i) ==
  /\ IF ~FoundNotification(u, i)
       THEN /\ res' = Result("getNotification", FALSE, TRUE, "Notification not found")
            /\ UNCHANGED notifications
       ELSE /\ notifications' =
                 IF notifications[i].status # "read"
                   THEN [notifications EXCEPT ![i] = markAsRead(notifications[i], now)]
                   ELSE notifications
            /\ res' = Result("getNotification", TRUE, FALSE, "")
  /\ UNCHANGED <<now, totalSpaces, bookings, waitlists, rules, calls, channel>>

(***************************************************************************)
(* Dispatch: the stored jobs, the dispatch tick of every minute, and the   *)
(* resolver's read operations.  The jobs are rows found in the table:      *)
(* nothing in the program inserts one, so their scheduledFor, expiresAt    *)
(* and maxRetries are drawn from small sets.  Rows are not deleted here.   *)
(* FairDispatch: the clock goes on and cron runs the tick.                 *)
(***************************************************************************)
MaxStored == 2

\* unset, before the start, day 2 07:00, day 2 09:00
JobSchedules == {NULL, BeforeStart, 3300, 3420}

\* max_retries >= 0 is all the table asks for; 3 is the column's default
StoredRetryLimits == {0, 3}

JobSeeds ==
  {NewNotification("A", s, x, m) :
     s \in JobSchedules, x \in JobExpiries, m \in StoredRetryLimits}

InitDispatch ==
  /\ now = 0
  /\ totalSpaces = 1
  /\ bookings = <<>>
  /\ waitlists = <<>>
  /\ rules = <<>>
  /\ res = Result("none", TRUE, FALSE, "")
  /\ calls = <<>>
  /\ \E k \in 1..MaxStored : notifications \in [1..k -> JobSeeds]
  /\ channel = ChannelInit

DispatchTick == \E delivered \in SUBSET (1..MaxStored) : ProcessPendingNotifications(delivered)

NextDispatch ==
  \/ Tick
  \/ DispatchTick
  \/ \E u \in Users, i \in 1..MaxStored : MarkNotificationAsRead(u, i)
  \/ \E u \in Users : MarkAllNotificationsAsRead(u)
  \/ \E u \in Users, i \in 1..MaxStored : GetNotification(u, i)

SpecDispatch == InitDispatch /\ [][NextDispatch]_vars

FairDispatch ==
  /\ SpecDispatch
  /\ WF_vars(Tick)
  /\ WF_vars(DispatchTick)

(***************************************************************************)
(* The push channel goes down and comes back while users join and leave    *)
(* the waitlist and create, pause, resume and cancel their rule, and while *)
(* the waitlist tick and the recurrence tick run.                          *)
(***************************************************************************)
ChannelChange ==
  /\ channel' = [channel EXCEPT !.up = ~channel.up]
  /\ UNCHANGED <<now, totalSpaces, bookings, waitlists, rules, res, calls, notifications>>

MaxListed == 1

InitChannel ==
  /\ now = 0
  /\ totalSpaces = 1
  /\ bookings \in SeedStores(totalSpaces, MaxTaken)
  /\ waitlists = <<>>
  /\ rules = <<>>
  /\ res = Result("none", TRUE, FALSE, "")
  /\ calls = <<>>
  /\ notifications = <<>>
  /\ channel = ChannelInit

NextChannel ==
  \/ Elapse(RecurrenceClock)
  \/ ChannelChange
  \/ \E id \in 1..MaxTaken : CancelBooking("A", id)
  \/ Len(waitlists) < MaxListed
       /\ \E iv \in SeedIntervals : JoinWaitlist("A", iv[1], iv[2], 1)
  \/ \E wid \in 1..MaxListed : LeaveWaitlist("A", wid)
  \/ \E wid \in 1..MaxListed : ConvertWaitlistToBooking("A", wid)
  \/ ProcessWaitlist
  \/ Len(rules) < MaxRules
       /\ \E d \in RuleDays :
             CreateRecurringBooking("A", "daily", RuleStartTime, RuleEndTime, d, 1,
                                    NULL, NULL)
  \/ \E rid \in 1..MaxRules : PauseRecurringBooking("A", rid)
  \/ \E rid \in 1..MaxRules :
        /\ rid <= Len(rules) => rules[rid].nextBookingDate <= MaxRuleDate
        /\ ResumeRecurringBooking("A", rid)
  \/ \E rid \in 1..MaxRules : CancelRecurringBooking("A", rid)
  \/ ProcessRecurringBookings

SpecChannel == InitChannel /\ [][NextChannel]_vars

(***************************************************************************)
(* The recurrence tick over a store that fails in the middle of a run.     *)
(* Every await on a repository of processRecurringBookings can reject;     *)
(* here the save of a rule does, once (the catch block of the loop then    *)
(* saves the rule) or twice (the rejection leaves the loop and the run     *)
(* ends in the outer catch).  Up to MaxDue rules are created and the tick  *)
(* runs over them while the clock goes from day 0 to day 4.                *)
(***************************************************************************)
MaxDue == 2
StoreError == "Error: store unavailable"

\* the way rule r takes through the loop body of processRecurringBookings
RuleBranch(bs, r) ==
  LET startTime == r.nextBookingDate * MinutesPerDay + r.startTime
      endTime == r.nextBookingDate * MinutesPerDay + r.endTime
      booking == NewBooking(r.userId, NoSpace, startTime, endTime, r.basePrice,
                            "confirmed", "pending")
  IN IF countConflicting(bs, startTime, endTime) > 0 THEN "conflict"
     ELSE IF InsertError(booking) # "ok" THEN "rejected"
     ELSE "created"

RECURSIVE ProcessRulesFailing(_, _, _, _, _, _)
\* The for loop of processRecurringBookings from rule i on, when the store
\* rejects the save of rule f (0: of no rule) and, if again, the save of
\* the catch block after it.  An item is a rule with the date it was due
\* for; begun are the items the run started on, done those whose pass of
\* the loop ended.
ProcessRulesFailing(bs, rs, out, i, f, again) ==
  IF i > Len(rs) THEN [out EXCEPT !.bs = bs, !.rs = rs]
  ELSE IF ~dueRecurringBooking(rs[i])
  THEN ProcessRulesFailing(bs, rs, out, i + 1, f, again)
  ELSE LET step == ProcessRule(bs, rs[i])
           item == <<i, rs[i].nextBookingDate>>
           started == [out EXCEPT !.begun = out.begun \cup {item}]
       IN IF i # f
          THEN ProcessRulesFailing(step.bs, [rs EXCEPT ![i] = step.rule],
                                   [started EXCEPT !.sent = out.sent \o step.sent,
                                                   !.done = out.done \cup {item}],
                                   i + 1, f, again)
          ELSE IF RuleBranch(bs, rs[i]) = "rejected" \/ again
          THEN [started EXCEPT !.bs = step.bs, !.rs = rs, !.aborted = TRUE]
          ELSE ProcessRulesFailing(step.bs,
                                   [rs EXCEPT ![i] = addFailureToHistory(step.rule, StoreError)],
                                   [started EXCEPT !.done = out.done \cup {item}],
                                   i + 1, f, again)

\* SchedulerService.processRecurringBookings over a store that rejects the
\* save of rule f.  res.aborted tells that the run ended in the outer
\* catch.
ProcessRecurringBookingsFailing(f, again) ==
  LET out == ProcessRulesFailing(bookings, rules,
                                 [bs |-> bookings, rs |-> rules, sent |-> <<>>,
                                  begun |-> {}, done |-> {}, aborted |-> FALSE],
                                 1, f, again)
  IN /\ \A i \in 1..Len(rules) :
          /\ Len(rules[i].failureHistory) < MaxHistory
          /\ Len(rules[i].bookingHistory) < MaxHistory
     /\ bookings' = out.bs
     /\ rules' = out.rs
     /\ res' = [op |-> "processRecurringBookings", ok |-> TRUE, thrown |-> FALSE,
                msg |-> "", at |-> now, sent |-> out.sent, aborted |-> out.aborted,
                begun |-> out.begun, done |-> out.done]
     /\ channel' = IF out.sent # <<>>
                    THEN [channel EXCEPT !.pushed = sendPushNotification(channel.up)]
                    ELSE channel
     /\ UNCHANGED <<now, totalSpaces, waitlists, calls, notifications>>

RecurrenceTickFailing ==
  \E f \in 0..MaxDue, again \in BOOLEAN : ProcessRecurringBookingsFailing(f, again)

InitPartial ==
  /\ now = 0
  /\ totalSpaces \in 1..MaxSpaces
  /\ bookings \in SeedStores(totalSpaces, MaxSeed)
  /\ waitlists = <<>>
  /\ rules = <<>>
  /\ res = Result("none", TRUE, FALSE, "")
  /\ calls = <<>>
  /\ notifications = <<>>
  /\ channel = ChannelInit

NextPartial ==
  \/ Elapse(RecurrenceClock)
  \/ Len(rules) < MaxDue
       /\ \E d \in RuleDays :
             CreateRecurringBooking("A", "daily", RuleStartTime, RuleEndTime, d, 1,
                                    NULL, NULL)
  \/ RecurrenceTickFailing

SpecPartial == InitPartial /\ [][NextPartial]_vars

(***************************************************************************)
(* Concurrent requests.  The resolvers are async functions: every await    *)
(* on the repository is a point where another request runs.  A request is  *)
(* modelled in two steps, its reads (findOneBy, checkAvailability) and its *)
(* write (save); nothing in the code locks the parking or opens a          *)
(* transaction between the two.                                            *)
(***************************************************************************)
MaxCalls == 2

Procs == 1..MaxCalls

\* the authenticated user of request p
CallUser(p) == IF p = 1 THEN "A" ELSE "B"

NoCall ==
  [pc |-> "idle", op |-> "none", spaceId |-> NoSpace, startTime |-> 0, endTime |-> 0,
   id |-> 0, availableSpaces |-> <<>>, loaded |-> <<>>, ok |-> FALSE, row |-> 0]

Returned(c, ok, row) == [c EXCEPT !.pc = "done", !.ok = ok, !.row = row]

\* createBooking up to the availability it has read (lines 1378-1393)
CreateBookingCheck(p, sp, s, e) ==
  LET availability == checkAvailability(bookings, s, e)
      call == [NoCall EXCEPT !.op = "createBooking", !.spaceId = sp,
                             !.startTime = s, !.endTime = e,
                             !.availableSpaces = availability.availableSpaces]
  IN /\ calls[p].pc = "idle"
     /\ calls' = [calls EXCEPT ![p] =
                    IF availability.isAvailable
                    THEN [call EXCEPT !.pc = "checked"]
                    ELSE Returned(call, FALSE, 0)]
     /\ UNCHANGED <<now, totalSpaces, bookings, waitlists, rules, res, notifications, channel>>

\* createBooking from the unit assignment to the save (lines 1395-1424)
CreateBookingSave(p) ==
  LET c == calls[p]
      spaceId == IF c.spaceId # NoSpace THEN c.spaceId
                 ELSE IF Len(c.availableSpaces) > 0 THEN c.availableSpaces[1] ELSE NoSpace
      booking == NewBooking(CallUser(p), spaceId, c.startTime, c.endTime,
                            calculatePricing(c.startTime, c.endTime), UNSET, UNSET)
  IN /\ c.pc = "checked" /\ c.op = "createBooking"
     /\ IF spaceId = NoSpace \/ spaceId \notin SeqToSet(c.availableSpaces)
           \/ InsertError(booking) # "ok"
        THEN /\ calls' = [calls EXCEPT ![p] = Returned(c, FALSE, 0)]
             /\ UNCHANGED bookings
        ELSE /\ bookings' = Append(bookings, InsertedRow(booking))
             /\ calls' = [calls EXCEPT ![p] = Returned(c, TRUE, Len(bookings) + 1)]
     /\ UNCHANGED <<now, totalSpaces, waitlists, rules, res, notifications, channel>>

\* extendBooking up to the availability it has read (lines 1580-1606)
ExtendBookingCheck(p, id, newEndTime) ==
  LET call == [NoCall EXCEPT !.op = "extendBooking", !.id = id, !.endTime = newEndTime]
  IN /\ calls[p].pc = "idle"
     /\ calls' = [calls EXCEPT ![p] =
          IF ~Found(CallUser(p), id) THEN Returned(call, FALSE, 0)
          ELSE IF ~canBeExtended(bookings[id]) \/ newEndTime <= bookings[id].endTime
                  \/ ~checkAvailability(bookings, bookings[id].endTime, newEndTime).isAvailable
          THEN Returned(call, FALSE, 0)
          ELSE [call EXCEPT !.pc = "checked", !.loaded = <<bookings[id]>>]]
     /\ UNCHANGED <<now, totalSpaces, bookings, waitlists, rules, res, notifications, channel>>

\* extendBooking from the pricing to the save of the loaded entity
\* (lines 1608-1639)
ExtendBookingSave(p) ==
  LET c == calls[p]
      booking == c.loaded[1]
      additional == calculatePricing(booking.endTime, c.endTime)
      changed == [booking EXCEPT
                    !.endTime = c.endTime,
                    !.totalAmount = AppendedAmount(booking.totalAmount, additional),
                    !.extensionHistory = Append(booking.extensionHistory,
                       [originalEndTime |-> booking.endTime,
                        newEndTime |-> c.endTime,
                        additionalAmount |-> additional])]
  IN /\ c.pc = "checked" /\ c.op = "extendBooking"
     /\ IF UpdateError(changed) # "ok" \/ AppendedAmountError(additional) # "ok"
        THEN /\ calls' = [calls EXCEPT ![p] = Returned(c, FALSE, 0)]
             /\ UNCHANGED bookings
        ELSE /\ bookings' = [bookings EXCEPT ![c.id] = changed]
             /\ calls' = [calls EXCEPT ![p] = Returned(c, TRUE, c.id)]
     /\ UNCHANGED <<now, totalSpaces, waitlists, rules, res, notifications, channel>>

(***************************************************************************)
(* Overlapping runs of the waitlist tick.  cron starts a run every five    *)
(* minutes whether or not the previous one has returned, and               *)
(* triggerWaitlistProcessing starts one on demand; processWaitlist holds   *)
(* no flag and no lock.  A run is modelled in two steps: the find of the   *)
(* ACTIVE entries, and the loop over the entities it has found.            *)
(***************************************************************************)
IdleRun == [pc |-> "idle", op |-> "none", loaded |-> <<>>, sent |-> {}]

\* processWaitlist up to the entries it has read (lines 205-220)
ProcessWaitlistFind(p) ==
  LET found == activeWaitlists(waitlists)
  IN /\ calls[p].pc = "idle"
     /\ calls' = [calls EXCEPT ![p] =
                    [pc |-> "found", op |-> "processWaitlist",
                     loaded |-> [k \in 1..Len(found) |->
                                   [id |-> found[k], row |-> waitlists[found[k]]]],
                     sent |-> {}]]
     /\ UNCHANGED <<now, totalSpaces, bookings, waitlists, rules, res, notifications, channel>>

\* the entity found has room at the time the loop counts the bookings
LoadedHasRoom(x) == hasRoom(x.id)

\* processWaitlist from the loop over the entities it has read to its end
\* (lines 230-275): the count is read in the loop, the entity saved is the
\* one found before
ProcessWaitlistLoop(p) ==
  LET c == calls[p]
      promoted == SelectSeq(c.loaded, LoadedHasRoom)
  IN /\ c.pc = "found" /\ c.op = "processWaitlist"
     /\ waitlists' =
          [i \in 1..Len(waitlists) |->
             IF \E k \in 1..Len(promoted) : promoted[k].id = i
             THEN markAsNotified(
                    promoted[CHOOSE k \in 1..Len(promoted) : promoted[k].id = i].row)
             ELSE waitlists[i]]
     /\ calls' = [calls EXCEPT ![p] =
                    [c EXCEPT !.pc = "done",
                              !.sent = {promoted[k].id : k \in 1..Len(promoted)}]]
     /\ res' = [op |-> "processWaitlist", ok |-> TRUE, thrown |-> FALSE, msg |-> "",
                sent |-> [k \in 1..Len(promoted) |->
                            WaitlistAvailable(promoted[k].row.userId, now + NotifyWindow)]]
     /\ channel' = IF promoted # <<>>
                    THEN [channel EXCEPT !.pushed = sendPushNotification(channel.up)]
                    ELSE channel
     /\ UNCHANGED <<now, totalSpaces, bookings, rules, notifications>>

InitOverlap ==
  /\ now = 0
  /\ totalSpaces \in 1..MaxSpaces
  /\ bookings \in SeedStores(totalSpaces, MaxTaken)
  /\ waitlists = <<>>
  /\ rules = <<>>
  /\ res = Result("none", TRUE, FALSE, "")
  /\ calls = [p \in Procs |-> IdleRun]
  /\ notifications = <<>>
  /\ channel = ChannelInit

NextOverlap ==
  \/ Tick
  \/ \E id \in 1..MaxTaken : CancelBooking("A", id)
  \/ Len(waitlists) < MaxQueue
       /\ \E u \in Users, iv \in SeedIntervals : JoinWaitlist(u, iv[1], iv[2], 1)
  \/ \E p \in Procs : ProcessWaitlistFind(p)
  \/ \E p \in Procs : ProcessWaitlistLoop(p)

SpecOverlap == InitOverlap /\ [][NextOverlap]_vars

InitConcurrent ==
  /\ now = 0
  /\ totalSpaces \in 1..MaxSpaces
  /\ bookings \in SeedStores(totalSpaces, MaxSeed)
  /\ waitlists = <<>>
  /\ rules = <<>>
  /\ res = Result("none", TRUE, FALSE, "")
  /\ calls = [p \in Procs |-> NoCall]
  /\ notifications = <<>>
  /\ channel = ChannelInit

NextConcurrent ==
  \/ Tick
  \/ \E id \in 1..MaxBookings : CheckInBooking("A", id)
  \/ \E p \in Procs, sp \in 0..MaxSpaces, iv \in SeedIntervals :
        CreateBookingCheck(p, sp, iv[1], iv[2])
  \/ \E p \in Procs : CreateBookingSave(p)
  \/ \E p \in Procs, id \in 1..MaxBookings, e \in Bnd : ExtendBookingCheck(p, id, e)
  \/ \E p \in Procs : ExtendBookingSave(p)

SpecConcurrent == InitConcurrent /\ [][NextConcurrent]_vars

(***************************************************************************)
(* Joins and leaves in flight at the same time.  joinWaitlist counts the   *)
(* ACTIVE entries and saves its entry after a later await; leaveWaitlist   *)
(* saves the cancelled entry, then updateWaitlistPositions reads the       *)
(* ACTIVE entries and saves their positions after a further await.  Each   *)
(* of up to MaxCalls requests stands at one of these awaits.               *)
(***************************************************************************)
IdleRequest ==
  [pc |-> "idle", op |-> "none", userId |-> "", startTime |-> 0, endTime |-> 0,
   requiredSpaces |-> 0, count |-> 0, loaded |-> {}]

\* joinWaitlist up to the count of the ACTIVE entries (part_014 lines 59-105)
JoinWaitlistCount(p, u, s, e, requiredSpaces) ==
  LET existingWaitlist ==
        \E i \in 1..Len(waitlists) :
           /\ waitlists[i].userId = u
           /\ waitlists[i].status \in {"active", "notified"}
           /\ waitlists[i].desiredStartTime < e
           /\ waitlists[i].desiredEndTime > s
      available == totalSpaces - countConflicting(bookings, s, e)
  IN /\ calls[p].pc = "idle"
     /\ IF s >= e
        THEN /\ res' = Result("joinWaitlist", FALSE, TRUE, "Start time must be before end time")
             /\ UNCHANGED calls
        ELSE IF s <= now
        THEN /\ res' = Result("joinWaitlist", FALSE, TRUE, "Start time must be in the future")
             /\ UNCHANGED calls
        ELSE IF existingWaitlist
        THEN /\ res' = Result("joinWaitlist", FALSE, TRUE, "You already have an active waitlist entry for this time slot")
             /\ UNCHANGED calls
        ELSE IF available >= requiredSpaces
        THEN /\ res' = Result("joinWaitlist", FALSE, TRUE, "Parking is currently available. Please book directly.")
             /\ UNCHANGED calls
        ELSE /\ calls' = [calls EXCEPT ![p] =
                            [IdleRequest EXCEPT !.pc = "counted", !.op = "joinWaitlist",
                                                !.userId = u, !.startTime = s,
                                                !.endTime = e,
                                                !.requiredSpaces = requiredSpaces,
                                                !.count = activeCount(waitlists)]]
             /\ UNCHANGED res
     /\ UNCHANGED <<now, totalSpaces, bookings, waitlists, rules, notifications, channel>>

\* joinWaitlist from the new entry to the end (part_014 lines 107-141)
JoinWaitlistSave(p) ==
  LET c == calls[p]
      waitlist == [userId |-> c.userId, status |-> "active",
                   position |-> c.count + 1,
                   desiredStartTime |-> c.startTime, desiredEndTime |-> c.endTime,
                   requiredSpaces |-> c.requiredSpaces,
                   expiresAt |-> c.startTime + WaitlistExpiry,
                   notifiedAt |-> NULL, convertedBookingId |-> NULL]
  IN /\ c.pc = "counted"
     /\ waitlists' = Append(waitlists, waitlist)
     /\ res' = AfterSend(Result("joinWaitlist", TRUE, FALSE, "joined"),
                         sendNotification(channel.up))
     /\ channel' = Pushed(res')
     /\ calls' = [calls EXCEPT ![p] = IdleRequest]
     /\ UNCHANGED <<now, totalSpaces, bookings, rules, notifications>>

\* leaveWaitlist up to the save of the cancelled entry (part_014 lines 149-174)
LeaveWaitlistCancel(p, u, wid) ==
  /\ calls[p].pc = "idle"
  /\ IF ~(wid \in 1..Len(waitlists) /\ waitlists[wid].userId = u)
     THEN /\ res' = Result("leaveWaitlist", FALSE, TRUE, "Waitlist entry not found")
          /\ UNCHANGED <<waitlists, calls>>
     ELSE IF waitlists[wid].status \notin {"active", "notified"}
     THEN /\ res' = Result("leaveWaitlist", FALSE, TRUE, "Cannot leave waitlist - entry is not active")
          /\ UNCHANGED <<waitlists, calls>>
     ELSE /\ waitlists' = [waitlists EXCEPT ![wid].status = "cancelled"]
          /\ calls' = [calls EXCEPT ![p] =
                         [IdleRequest EXCEPT !.pc = "cancelled", !.op = "leaveWaitlist",
                                             !.userId = u]]
          /\ UNCHANGED res
  /\ UNCHANGED <<now, totalSpaces, bookings, rules, notifications, channel>>

\* the find of updateWaitlistPositions (part_014 lines 356-367)
UpdateWaitlistPositionsFind(p) ==
  /\ calls[p].pc = "cancelled"
  /\ calls' = [calls EXCEPT ![p].pc = "loaded",
                            ![p].loaded = {i \in 1..Len(waitlists) :
                                             waitlists[i].status = "active"}]
  /\ UNCHANGED <<now, totalSpaces, bookings, waitlists, rules, res, notifications, channel>>

\* The save of updateWaitlistPositions and the end of leaveWaitlist
\* (part_014 lines 369-374 and 179-190): the entries that were read get the
\* positions 1..n in the order they were read in.
UpdateWaitlistPositionsSave(p) ==
  LET c == calls[p]
  IN /\ c.pc = "loaded"
     /\ waitlists' = [i \in 1..Len(waitlists) |->
                        IF i \in c.loaded
                        THEN [waitlists[i] EXCEPT !.position =
                                Cardinality({j \in c.loaded : j <= i})]
                        ELSE waitlists[i]]
     /\ res' = AfterSend(Result("leaveWaitlist", TRUE, FALSE, "left"),
                         sendNotification(channel.up))
     /\ channel' = Pushed(res')
     /\ calls' = [calls EXCEPT ![p] = IdleRequest]
     /\ UNCHANGED <<now, totalSpaces, bookings, rules, notifications>>

\* entries stored and joins on their way to the store
Joining == Cardinality({p \in Procs : calls[p].pc = "counted"})

InitPositions ==
  /\ now = 0
  /\ totalSpaces \in 1..MaxSpaces
  /\ bookings \in SeedStores(totalSpaces, MaxTaken)
  /\ waitlists = <<>>
  /\ rules = <<>>
  /\ res = Result("none", TRUE, FALSE, "")
  /\ calls = [p \in Procs |-> IdleRequest]
  /\ notifications = <<>>
  /\ channel = ChannelInit

NextPositions ==
  \/ Tick
  \/ Len(waitlists) + Joining < MaxQueue
       /\ \E p \in Procs, u \in Users, iv \in SeedIntervals :
             JoinWaitlistCount(p, u, iv[1], iv[2], 1)
  \/ \E p \in Procs : JoinWaitlistSave(p)
  \/ \E p \in Procs, u \in Users, wid \in 1..MaxQueue : LeaveWaitlistCancel(p, u, wid)
  \/ \E p \in Procs : UpdateWaitlistPositionsFind(p)
  \/ \E p \in Procs : UpdateWaitlistPositionsSave(p)

SpecPositions == InitPositions /\ [][NextPositions]_vars

(***************************************************************************)
(* calculateNextBookingDate step by step.  The WEEKDAYS, WEEKENDS and      *)
(* CUSTOM(daysOfWeek) branches are do/while loops; a call is modelled with *)
(* one step per iteration, so that a call that does not return is a        *)
(* behaviour of the model.  The rules are those of RuleInputs and CUSTOM   *)
(* rules whose daysOfWeek has no day of the week in it.  The condition of  *)
(* the loops reads getDay() only: a date more than two weeks after the     *)
(* one the call began at is held as the date a week before it.  The        *)
(* engine goes on running a loop that has not ended, which is the          *)
(* fairness of FairLoop.                                                   *)
(***************************************************************************)
DaysPerWeek == 7
\* customPattern.daysOfWeek: as in DaysOfWeekInputs, an empty array, [7]
LoopDaysOfWeekInputs == DaysOfWeekInputs \cup {{}, {7}}

LoopRuleInputs ==
  RuleInputs
  \cup
  {[NewRecurringBooking("A", "custom", RuleStartTime, RuleEndTime, d, NULL, NULL, HourlyRate)
      EXCEPT !.hasDaysOfWeek = TRUE, !.daysOfWeek = days] :
     d \in DateInputs, days \in LoopDaysOfWeekInputs}

NoLoop == [pc |-> "idle", first |-> 0, current |-> 0, days |-> {}]

\* the rule takes one of the do/while branches
HasLoop(r) ==
  r.pattern \in {"weekdays", "weekends"} \/ (r.pattern = "custom" /\ r.hasDaysOfWeek)

\* the days of the week at which the loop of the rule's branch ends
LoopDays(r) ==
  IF r.pattern = "weekdays" THEN 1..5
  ELSE IF r.pattern = "weekends" THEN {0, 6}
  ELSE r.daysOfWeek

\* rule.updateNextBookingDate() up to the switch of
\* calculateNextBookingDate: a branch without a loop returns at once
CalculateNextBookingDateCall(rid) ==
  LET r == rules[rid]
  IN /\ calls[rid].pc = "idle"
     /\ IF HasLoop(r)
        THEN /\ calls' = [calls EXCEPT ![rid] =
                            [pc |-> "loop", first |-> r.nextBookingDate,
                             current |-> r.nextBookingDate, days |-> LoopDays(r)]]
             /\ UNCHANGED <<rules, res>>
        ELSE /\ rules' = [rules EXCEPT ![rid] = updateNextBookingDate(r)]
             /\ res' = [op |-> "updateNextBookingDate", ok |-> TRUE, thrown |-> FALSE,
                        msg |-> "", previous |-> r.nextBookingDate]
             /\ UNCHANGED calls
     /\ UNCHANGED <<now, totalSpaces, bookings, waitlists, notifications, channel>>

\* one iteration: current.setDate(current.getDate() + 1), then the
\* condition; the call returns and the rule takes the date when it is false
LoopIteration(rid) ==
  LET c == calls[rid]
      next == c.current + 1
  IN /\ c.pc = "loop"
     /\ IF DayOfWeek(next) \in c.days
        THEN /\ rules' = [rules EXCEPT ![rid].nextBookingDate = next]
             /\ res' = [op |-> "updateNextBookingDate", ok |-> TRUE, thrown |-> FALSE,
                        msg |-> "", previous |-> c.first]
             /\ calls' = [calls EXCEPT ![rid] = NoLoop]
        ELSE /\ calls' = [calls EXCEPT ![rid].current =
                            IF next > c.first + 2 * DaysPerWeek
                            THEN next - DaysPerWeek ELSE next]
             /\ UNCHANGED <<rules, res>>
     /\ UNCHANGED <<now, totalSpaces, bookings, waitlists, notifications, channel>>

InitLoop ==
  /\ now = 0
  /\ totalSpaces = 1
  /\ bookings = <<>>
  /\ waitlists = <<>>
  /\ rules \in {<<r>> : r \in LoopRuleInputs}
  /\ res = Result("none", TRUE, FALSE, "")
  /\ calls = <<NoLoop>>
  /\ notifications = <<>>
  /\ channel = ChannelInit

NextLoop ==
  \/ rules[1].nextBookingDate <= MaxDate /\ CalculateNextBookingDateCall(1)
  \/ LoopIteration(1)

SpecLoop == InitLoop /\ [][NextLoop]_vars

FairLoop == SpecLoop /\ WF_vars(LoopIteration(1))

(***************************************************************************)
(* Properties of the reservations.                                         *)
(***************************************************************************)
\* the reservations that hold capacity at the instant t
HeldAt(t) ==
  {i \in 1..Len(bookings) :
     HoldsCapacity(bookings[i]) /\ bookings[i].startTime <= t /\ t < bookings[i].endTime}

\* C1: at every instant the number of CONFIRMED/ACTIVE reservations whose
\* interval contains the instant is at most the capacity totalSpaces
\* (every interval starts and ends in Bnd, so the instants of Bnd decide it).
C1_CapacityNeverExceeded ==
  \A t \in Bnd : Cardinality(HeldAt(t)) <= totalSpaces

\* An extension has been granted and stored.
C1_ExtensionStored ==
  \E i \in 1..Len(bookings) :
     HoldsCapacity(bookings[i]) /\ Len(bookings[i].extensionHistory) > 0

\* C2: no two concurrent capacity-allocating requests both pass their
\* availability check and both commit a reservation on the same unit for
\* overlapping intervals.
C2_NoDoubleCommit ==
  \A p, q \in Procs :
    (p < q /\ calls[p].pc = "done" /\ calls[p].ok
           /\ calls[q].pc = "done" /\ calls[q].ok
           /\ calls[p].row # calls[q].row)
    => ~(/\ bookings[calls[p].row].spaceId = bookings[calls[q].row].spaceId
         /\ Overlaps(bookings[calls[p].row].startTime, bookings[calls[p].row].endTime,
                     bookings[calls[q].row].startTime, bookings[calls[q].row].endTime))

\* user u has booked the interval [s, e): a reservation of u for it is
\* stored and neither cancelled nor over
Booked(u, s, e) ==
  \E i \in 1..Len(bookings) :
     /\ bookings[i].userId = u
     /\ bookings[i].status \in {"pending", "confirmed", "active"}
     /\ bookings[i].startTime = s /\ bookings[i].endTime = e

\* with A's reservation in place, B's request for the identical interval
\* is answered with a failure value and stores nothing
C3_IdenticalRequestConflicts ==
  \A iv \in SeedIntervals :
    (Booked("A", iv[1], iv[2]) /\ CreateBooking("B", NoSpace, iv[1], iv[2]))
    => (~res'.ok /\ ~res'.thrown /\ bookings' = bookings)

\* B then joins the empty waitlist and gets position 1
C3_JoinsAtPositionOne ==
  \A iv \in SeedIntervals :
    (Booked("A", iv[1], iv[2]) /\ iv[1] > now /\ waitlists = <<>>
       /\ JoinWaitlist("B", iv[1], iv[2], 1))
    => (res'.ok /\ Len(waitlists') = 1 /\ waitlists'[1].userId = "B"
          /\ waitlists'[1].position = 1)

\* A cancels more than 24h ahead: CANCELLED, full refund
C3_CancelRefundsInFull ==
  \A id \in 1..MaxBookings :
    (Found("A", id) /\ bookings[id].status \in {"pending", "confirmed"}
       /\ now < bookings[id].startTime - FullRefundMinutes
       /\ CancelBooking("A", id))
    => (res'.ok /\ bookings'[id].status = "cancelled"
          /\ bookings'[id].refundAmount = bookings[id].totalAmount)

\* no confirmed or active reservation overlaps the interval of entry w
IntervalFree(w) ==
  \A i \in 1..Len(bookings) :
     HoldsCapacity(bookings[i]) =>
       ~Overlaps(bookings[i].startTime, bookings[i].endTime,
                 w.desiredStartTime, w.desiredEndTime)

\* the waitlist tick moves B's entry to NOTIFIED once the unit is free
C3_TickNotifies ==
  \A wid \in 1..Len(waitlists) :
    (waitlists[wid].userId = "B" /\ waitlists[wid].status = "active"
       /\ IntervalFree(waitlists[wid]) /\ ProcessWaitlist)
    => waitlists'[wid].status = "notified"

\* B's convert stores a CONFIRMED reservation of B for the interval
C3_ConvertConfirms ==
  \A wid \in 1..Len(waitlists) :
    (waitlists[wid].userId = "B" /\ waitlists[wid].status = "notified"
       /\ IntervalFree(waitlists[wid]) /\ waitlists[wid].desiredStartTime >= now
       /\ ConvertWaitlistToBooking("B", wid))
    => (/\ res'.ok
        /\ Len(bookings') = Len(bookings) + 1
        /\ bookings'[Len(bookings')].userId = "B"
        /\ bookings'[Len(bookings')].status = "confirmed"
        /\ bookings'[Len(bookings')].startTime = waitlists[wid].desiredStartTime
        /\ bookings'[Len(bookings')].endTime = waitlists[wid].desiredEndTime)

\* A and B never hold the same unit at overlapping times
C3_NeverBothHold ==
  \A i, j \in 1..Len(bookings) :
    (bookings[i].userId = "A" /\ bookings[j].userId = "B"
       /\ HoldsCapacity(bookings[i]) /\ HoldsCapacity(bookings[j])
       /\ bookings[i].spaceId = bookings[j].spaceId)
    => ~Overlaps(bookings[i].startTime, bookings[i].endTime,
                 bookings[j].startTime, bookings[j].endTime)

\* C3: end to end on a parking of capacity 1: after A books an interval,
\* B's identical request is answered Conflict and stores nothing; B joins
\* the waitlist at position 1; A's cancellation more than 24h ahead gives
\* CANCELLED with a full refund; the waitlist tick moves B's entry to
\* NOTIFIED; B's convert stores a CONFIRMED reservation of B; and A and B
\* never hold the same unit at overlapping times.
C3_EndToEnd ==
  [][totalSpaces = 1 =>
       /\ C3_IdenticalRequestConflicts
       /\ C3_JoinsAtPositionOne
       /\ C3_CancelRefundsInFull
       /\ C3_TickNotifies
       /\ C3_ConvertConfirms
       /\ C3_NeverBothHold]_vars

\* the CONFIRMED/ACTIVE reservations that overlap [s, e)
OverlappingHeld(s, e) ==
  {i \in 1..Len(bookings) :
     HoldsCapacity(bookings[i])
     /\ Overlaps(bookings[i].startTime, bookings[i].endTime, s, e)}

\* C4: checkAvailability counts as conflicting exactly the CONFIRMED/ACTIVE
\* reservations r with r.start < e and s < r.end: its availableCount is the
\* capacity minus their number and isAvailable says whether that is positive.
C4_CountsOverlapping ==
  res.op = "checkAvailability" =>
    /\ res.availability.availableCount
         = totalSpaces - Cardinality(OverlappingHeld(res.startTime, res.endTime))
    /\ res.availability.isAvailable = (res.availability.availableCount > 0)

\* C5: a CONFIRMED/ACTIVE reservation whose interval only touches the
\* requested one at an endpoint does not make its unit unavailable.
C5_TouchingIsFree ==
  res.op = "checkAvailability" =>
    \A i \in 1..Len(bookings) :
      (/\ HoldsCapacity(bookings[i])
       /\ (bookings[i].startTime = res.endTime \/ bookings[i].endTime = res.startTime)
       /\ \A j \in OverlappingHeld(res.startTime, res.endTime) :
             bookings[j].spaceId # bookings[i].spaceId)
      => bookings[i].spaceId \in SeqToSet(res.availability.availableSpaces)

\* C6: the reservation stored by a successful create is CONFIRMED, its
\* payment status is PENDING and it has a unit.
C6_CreatedConfirmed ==
  (res.op \in {"createBooking", "convertWaitlistToBooking"} /\ res.ok) =>
    /\ bookings[Len(bookings)].status = "confirmed"
    /\ bookings[Len(bookings)].paymentStatus = "pending"
    /\ bookings[Len(bookings)].spaceId # NoSpace

\* the units no CONFIRMED/ACTIVE reservation holds anywhere in [s, e)
FreeUnits(s, e) ==
  {k \in 1..totalSpaces : \A i \in OverlappingHeld(s, e) : bookings[i].spaceId # k}

Lowest(S) == CHOOSE x \in S : \A y \in S : x <= y

C7_CreateAssignsFreeUnit ==
  \A u \in Users, sp \in 0..MaxSpaces, s \in Bnd, e \in Bnd :
    (s < e /\ CreateBooking(u, sp, s, e)) =>
      IF sp = NoSpace
      THEN res'.ok => /\ FreeUnits(s, e) # {}
                      /\ bookings'[Len(bookings')].spaceId = Lowest(FreeUnits(s, e))
      ELSE sp \notin FreeUnits(s, e) => (~res'.ok /\ bookings' = bookings)

\* C7: no two overlapping CONFIRMED/ACTIVE reservations have the same unit;
\* a create that names no unit gets the lowest free unit, and a create that
\* names a unit held on the interval fails and stores nothing.
C7_UnitsNotShared ==
  [][NoUnitHeldTwice(bookings') /\ C7_CreateAssignsFreeUnit]_vars

\* C8: a create for an interval on which no unit is free is answered with
\* a failure value, not an exception, and the stored reservations stay as
\* they were.
C8_FullIsConflict ==
  [][\A u \in Users, sp \in 0..MaxSpaces, s \in Bnd, e \in Bnd :
       (s < e /\ FreeUnits(s, e) = {} /\ CreateBooking(u, sp, s, e))
       => (~res'.ok /\ ~res'.thrown /\ bookings' = bookings)]_vars

\* C9: a create whose interval has start >= end or start before the
\* current time returns a failure and stores nothing; every stored
\* reservation has start < end and start >= its creation time.
C9_InvalidIntervalRejected ==
  [][/\ \A u \in Users, sp \in 0..MaxSpaces, s \in Bnd, e \in Bnd :
          (res'.op = "createBooking" /\ (s >= e \/ s < now)
             /\ CreateBooking(u, sp, s, e))
          => (~res'.ok /\ bookings' = bookings)
     /\ \A i \in 1..Len(bookings') :
          /\ bookings'[i].startTime < bookings'[i].endTime
          /\ bookings'[i].startTime >= bookings'[i].createdAt]_vars

\* A create was refused by the validation of its interval.
C9_RejectedByValidation ==
  /\ res.op = "createBooking" /\ ~res.ok
  /\ res.msg = "Failed to create booking. Please try again."

\* C10: a cancel of a reservation of the caller succeeds exactly when its
\* status is PENDING or CONFIRMED and the current time is before its start
\* minus 2 hours; it then stores CANCELLED with the refund amount and
\* changes nothing else; otherwise it returns a failure and changes nothing.
C10_CancelExactlyWhenAllowed ==
  [][\A u \in Users, id \in 1..MaxBookings :
       CancelBooking(u, id) =>
         IF /\ Found(u, id)
            /\ bookings[id].status \in {"pending", "confirmed"}
            /\ now < bookings[id].startTime - 2 * MinutesPerHour
         THEN /\ res'.ok
              /\ bookings'[id].status = "cancelled"
              /\ bookings'[id].refundAmount >= 0
              /\ bookings' = [bookings EXCEPT ![id].status = "cancelled",
                                              ![id].refundAmount = bookings'[id].refundAmount]
         ELSE ~res'.ok /\ bookings' = bookings]_vars

\* A cancel has succeeded and stored CANCELLED with a refund.
C10_CancelledWithRefund ==
  /\ res.op = "cancelBooking" /\ res.ok
  /\ \E i \in 1..Len(bookings) :
       bookings[i].status = "cancelled" /\ bookings[i].refundAmount > 0

\* C11, as stated: for a reservation that is PENDING or CONFIRMED the
\* refund is the whole amount when at least 24 hours remain to its start,
\* half of it when at least 2 and less than 24 hours remain (exactly 2
\* hours included), and 0 otherwise.
C11_RefundTiersBoundaryIncluded ==
  \A i \in 1..Len(bookings) :
    bookings[i].status \in {"pending", "confirmed"} =>
      LET remaining == bookings[i].startTime - now
      IN 2 * calculateRefundAmount(bookings[i]) =
           (IF remaining >= 24 * MinutesPerHour THEN 2 * bookings[i].totalAmount
            ELSE IF remaining >= 2 * MinutesPerHour THEN bookings[i].totalAmount
            ELSE 0)

\* C11, amended: the refund of a PENDING or CONFIRMED reservation is the
\* whole amount when at least 24 hours remain to its start, half of it when
\* more than 2 and less than 24 hours remain, and 0 when 2 hours or less
\* remain; a cancel that succeeds stores exactly that refund.
C11_RefundTiers ==
  [][\A u \in Users, id \in 1..MaxBookings :
       (res'.op = "cancelBooking" /\ Found(u, id) /\ CancelBooking(u, id)
          /\ bookings[id].status \in {"pending", "confirmed"})
       => LET remaining == bookings[id].startTime - now
              expectedTwice ==
                IF remaining >= 24 * MinutesPerHour THEN 2 * bookings[id].totalAmount
                ELSE IF remaining > 2 * MinutesPerHour THEN bookings[id].totalAmount
                ELSE 0
          IN /\ 2 * calculateRefundAmount(bookings[id]) = expectedTwice
             /\ res'.ok => 2 * bookings'[id].refundAmount = expectedTwice]_vars

\* A cancel between 2 and 24 hours before the start has stored half of the
\* amount as the refund.
C11_HalfRefunded ==
  /\ res.op = "cancelBooking" /\ res.ok
  /\ \E i \in 1..Len(bookings) :
       /\ bookings[i].status = "cancelled"
       /\ bookings[i].refundAmount > 0
       /\ 2 * bookings[i].refundAmount = bookings[i].totalAmount

\* C12: a check-in of a CONFIRMED reservation with no check-in recorded
\* succeeds at every time from 15 minutes before its start to its end,
\* storing ACTIVE and the check-in time and nothing else; outside that
\* window or from another status it fails and changes nothing.
C12_CheckInWithinWindow ==
  [][\A u \in Users, id \in 1..MaxHeld :
       (res'.op = "checkInBooking" /\ Found(u, id) /\ CheckInBooking(u, id))
       => IF /\ bookings[id].status = "confirmed"
             /\ bookings[id].checkInTime = NULL
             /\ bookings[id].startTime - 15 <= now
             /\ now <= bookings[id].endTime
          THEN /\ res'.ok
               /\ bookings' = [bookings EXCEPT ![id].status = "active",
                                               ![id].checkInTime = now]
          ELSE ~res'.ok /\ bookings' = bookings]_vars

\* C13: a check-out of an ACTIVE reservation with a check-in and no
\* check-out recorded succeeds at any time, storing COMPLETED and the
\* check-out time; a check-out of a reservation that was never checked in
\* fails and changes nothing.
C13_CheckOutAlwaysSucceeds ==
  [][\A u \in Users, id \in 1..MaxHeld :
       (res'.op = "checkOutBooking" /\ Found(u, id) /\ CheckOutBooking(u, id))
       => IF /\ bookings[id].status = "active"
             /\ bookings[id].checkInTime # NULL
             /\ bookings[id].checkOutTime = NULL
          THEN /\ res'.ok
               /\ bookings' = [bookings EXCEPT ![id].status = "completed",
                                               ![id].checkOutTime = now]
          ELSE ~res'.ok /\ bookings' = bookings]_vars

\* the parking has a unit to spare on [s, e) when reservation id is not
\* counted: fewer CONFIRMED/ACTIVE reservations other than id overlap
\* [s, e) than the parking has units
FreeWithout(id, s, e) ==
  Cardinality(OverlappingHeld(s, e) \ {id}) < totalSpaces

\* C14: an extend succeeds exactly when the reservation is ACTIVE, its end
\* has not passed, the new end is after the old one and the parking has a
\* free unit on [oldEnd, newEnd) not counting the reservation itself; it
\* then stores the new end, the amount grown by the additional amount and
\* one more extension entry (oldEnd, newEnd, additional amount); otherwise
\* the reservation is unchanged.
C14_ExtendExactlyWhenFree ==
  [][\A u \in Users, id \in 1..MaxHeld, newEndTime \in Bnd :
       (res'.op = "extendBooking" /\ Found(u, id) /\ ExtendBooking(u, id, newEndTime))
       => LET b == bookings[id]
              additional == calculatePricing(b.endTime, newEndTime)
          IN IF /\ b.status = "active"
                /\ now <= b.endTime
                /\ newEndTime > b.endTime
                /\ FreeWithout(id, b.endTime, newEndTime)
             THEN /\ res'.ok
                  /\ bookings' = [bookings EXCEPT
                       ![id].endTime = newEndTime,
                       ![id].totalAmount = b.totalAmount + additional,
                       ![id].extensionHistory = Append(b.extensionHistory,
                          [originalEndTime |-> b.endTime, newEndTime |-> newEndTime,
                           additionalAmount |-> additional])]
             ELSE ~res'.ok /\ bookings' = bookings]_vars

\* the status changes the lifecycle allows
LegalTransitions ==
  {<<"pending", "confirmed">>, <<"confirmed", "active">>, <<"active", "completed">>,
   <<"pending", "cancelled">>, <<"confirmed", "cancelled">>, <<"confirmed", "no_show">>}

\* C15: the status of a reservation changes only along PENDING->CONFIRMED,
\* CONFIRMED->ACTIVE, ACTIVE->COMPLETED, PENDING->CANCELLED,
\* CONFIRMED->CANCELLED and CONFIRMED->NO_SHOW, so COMPLETED, CANCELLED and
\* NO_SHOW are never left; and a cancel, check-in, check-out or extend
\* attempted from a status that does not allow it returns a failure and
\* leaves the stored reservations as they were.
C15_LegalTransitionsOnly ==
  [][/\ Len(bookings') >= Len(bookings)
     /\ \A i \in 1..Len(bookings) :
          bookings'[i].status # bookings[i].status
            => <<bookings[i].status, bookings'[i].status>> \in LegalTransitions
     /\ \A u \in Users, id \in 1..MaxBookings :
          Found(u, id) =>
            /\ (res'.op = "cancelBooking" /\ CancelBooking(u, id)
                  /\ bookings[id].status \notin {"pending", "confirmed"})
               => (~res'.ok /\ bookings' = bookings)
            /\ (res'.op = "checkInBooking" /\ CheckInBooking(u, id)
                  /\ bookings[id].status # "confirmed")
               => (~res'.ok /\ bookings' = bookings)
            /\ (res'.op = "checkOutBooking" /\ CheckOutBooking(u, id)
                  /\ bookings[id].status # "active")
               => (~res'.ok /\ bookings' = bookings)
            /\ \A newEndTime \in Bnd :
                 (res'.op = "extendBooking" /\ ExtendBooking(u, id, newEndTime)
                    /\ bookings[id].status # "active")
                 => (~res'.ok /\ bookings' = bookings)]_vars

\* A check-in has been refused because of the status, with a reservation
\* that went CONFIRMED -> ACTIVE -> COMPLETED in the store.
C15_RefusedFromCompleted ==
  /\ res.op = "checkInBooking" /\ ~res.ok
  /\ res.msg = "Check-in not available for this booking"
  /\ \E i \in 1..Len(bookings) : bookings[i].status = "completed"

\* reservation id is CONFIRMED, was never checked in and its check-in
\* window [start - 15min, end] is over
WindowElapsedUnused(id) ==
  IF id > Len(bookings) THEN FALSE
  ELSE /\ bookings[id].status = "confirmed"
       /\ bookings[id].checkInTime = NULL
       /\ now > bookings[id].endTime

IsNoShow(id) ==
  IF id > Len(bookings) THEN FALSE ELSE bookings[id].status = "no_show"

\* C16: a CONFIRMED reservation whose check-in window has gone by without a
\* check-in eventually has status NO_SHOW (and so no longer counts against
\* the capacity).
C16_NoShowEventually ==
  \A id \in 1..MaxSeed : WindowElapsedUnused(id) ~> IsNoShow(id)

(***************************************************************************)
(* Properties of the waitlist.                                             *)
(***************************************************************************)
\* the place of entry i among the ACTIVE entries of ws, by time of joining
RankAmongActive(ws, i) == Cardinality({j \in 1..i : ws[j].status = "active"})

\* C17: in every reachable state the positions of the ACTIVE entries of the
\* parking are pairwise distinct and are exactly 1..N in the order of
\* joining.
C17_PositionsContiguous ==
  \A i \in 1..Len(waitlists) :
    waitlists[i].status = "active"
      => waitlists[i].position = RankAmongActive(waitlists, i)

UnitsLeft(s, e) == totalSpaces - Cardinality(OverlappingHeld(s, e))

\* user u has an ACTIVE or NOTIFIED entry whose desired interval overlaps [s, e)
HasOverlappingEntry(u, s, e) ==
  \E i \in 1..Len(waitlists) :
     /\ waitlists[i].userId = u
     /\ waitlists[i].status \in {"active", "notified"}
     /\ Overlaps(waitlists[i].desiredStartTime, waitlists[i].desiredEndTime, s, e)

\* the join of u for [s, e) and k units has stored one more entry: ACTIVE,
\* at position (number of ACTIVE entries) + 1, expiring 24 hours after s
JoinedAtEnd(u, s, e, k) ==
  /\ res'.ok
  /\ Len(waitlists') = Len(waitlists) + 1
  /\ \A i \in 1..Len(waitlists) : waitlists'[i] = waitlists[i]
  /\ LET w == waitlists'[Len(waitlists')]
     IN /\ w.userId = u /\ w.status = "active"
        /\ w.desiredStartTime = s /\ w.desiredEndTime = e /\ w.requiredSpaces = k
        /\ w.position = Cardinality({i \in 1..Len(waitlists) :
                                       waitlists[i].status = "active"}) + 1
        /\ w.expiresAt = s + 24 * MinutesPerHour

\* C19, as stated: a join for an interval [s, e), s < e, is rejected and
\* stores no entry when the parking has at least the required units left
\* on the desired interval or the user already has an ACTIVE or NOTIFIED
\* entry overlapping it; in every other case it stores an ACTIVE entry at
\* position (number of ACTIVE entries) + 1 with expiresAt = desired start
\* + 24h.
C19_JoinRejectsOrCreates ==
  [][\A u \in Users, s \in Bnd, e \in Bnd, k \in 1..MaxSpaces :
       (s < e /\ res'.op = "joinWaitlist" /\ JoinWaitlist(u, s, e, k))
       => IF UnitsLeft(s, e) >= k \/ HasOverlappingEntry(u, s, e)
          THEN ~res'.ok /\ waitlists' = waitlists
          ELSE JoinedAtEnd(u, s, e, k)]_vars

\* C19, amended: a join is rejected and stores no entry when the desired
\* start is not before the desired end, when the desired start is not
\* after the current time, when the parking has at least the required
\* units left on the desired interval, or when the user already has an
\* ACTIVE or NOTIFIED entry overlapping it; in every other case it stores
\* an ACTIVE entry at position (number of ACTIVE entries) + 1 with
\* expiresAt = desired start + 24h.
C19_ValidJoinRejectsOrCreates ==
  [][\A u \in Users, s \in Bnd, e \in Bnd, k \in 1..MaxSpaces :
       (res'.op = "joinWaitlist" /\ JoinWaitlist(u, s, e, k))
       => IF \/ s >= e \/ s <= now
             \/ UnitsLeft(s, e) >= k \/ HasOverlappingEntry(u, s, e)
          THEN ~res'.ok /\ waitlists' = waitlists
          ELSE JoinedAtEnd(u, s, e, k)]_vars

\* A join has stored an entry at position 1 behind an entry that is no
\* longer ACTIVE.
C19_JoinedBehindInactive ==
  /\ res.op = "joinWaitlist" /\ res.ok
  /\ Len(waitlists) = 2
  /\ waitlists[1].status # "active"
  /\ waitlists[2].status = "active" /\ waitlists[2].position = 1

\* the notifications of res.sent that tell user u of an available unit
SentTo(r, u) ==
  {k \in 1..Len(r.sent) :
     r.sent[k].userId = u /\ r.sent[k].action = "waitlist_available"}

\* C20: the waitlist tick moves an entry from ACTIVE to NOTIFIED only when
\* the capacity minus the overlapping CONFIRMED/ACTIVE reservations is at
\* least the units the entry requires; a promoted entry gets expiresAt =
\* now + 15 minutes and one availability notification goes to its user;
\* an entry the capacity does not suffice for stays as it was; and the
\* tick stores no reservation.
C20_TickPromotesOnlyWithRoom ==
  [][(res'.op = "processWaitlist" /\ ProcessWaitlist) =>
       /\ bookings' = bookings
       /\ Len(waitlists') = Len(waitlists)
       /\ \A i \in 1..Len(waitlists) :
            LET w == waitlists[i]
                room == UnitsLeft(w.desiredStartTime, w.desiredEndTime) >= w.requiredSpaces
            IN /\ waitlists'[i] # w =>
                    /\ w.status = "active" /\ room
                    /\ waitlists'[i] = [w EXCEPT !.status = "notified",
                                                 !.expiresAt = now + 15,
                                                 !.notifiedAt = waitlists'[i].notifiedAt]
               /\ ~room => waitlists'[i] = w
       /\ \A u \in Users :
            Cardinality(SentTo(res', u))
              = Cardinality({i \in 1..Len(waitlists) :
                   /\ waitlists[i].userId = u
                   /\ waitlists[i].status = "active"
                   /\ waitlists'[i].status = "notified"})
       /\ Len(res'.sent) = Cardinality({i \in 1..Len(waitlists) :
                              waitlists'[i].status # waitlists[i].status})]_vars

\* A tick has promoted one entry and left another, for which the capacity
\* does not suffice, ACTIVE.
C20_PromotedOneOfTwo ==
  /\ res.op = "processWaitlist"
  /\ Len(res.sent) = 1
  /\ \E i, j \in 1..Len(waitlists) :
       /\ waitlists[i].status = "notified" /\ waitlists[i].expiresAt = now + 15
       /\ waitlists[j].status = "active"

(***************************************************************************)
(* C21: convert succeeds only for an entry that is NOTIFIED and whose      *)
(* expiresAt has not passed: a convert of an entry that is NOTIFIED with   *)
(* its offer window over, of an entry in any other status, or of no entry  *)
(* of the caller, is rejected and stores no reservation and changes no     *)
(* entry.                                                                  *)
(***************************************************************************)
Offered(u, wid) ==
  /\ wid \in 1..Len(waitlists)
  /\ waitlists[wid].userId = u
  /\ waitlists[wid].status = "notified"
  /\ waitlists[wid].expiresAt >= now

C22_ConvertRechecksCapacity ==
  [][\A u \in Users, wid \in 1..MaxQueue :
       (/\ res'.op = "convertWaitlistToBooking"
        /\ ConvertWaitlistToBooking(u, wid)
        /\ Offered(u, wid))
       => IF UnitsLeft(waitlists[wid].desiredStartTime, waitlists[wid].desiredEndTime)
               < waitlists[wid].requiredSpaces
          THEN /\ ~res'.ok
               /\ bookings' = bookings
               /\ waitlists' = waitlists
          ELSE /\ res'.ok
               /\ Len(bookings') = Len(bookings) + 1
               /\ bookings'[Len(bookings')].userId = u
               /\ bookings'[Len(bookings')].startTime = waitlists[wid].desiredStartTime
               /\ bookings'[Len(bookings')].endTime = waitlists[wid].desiredEndTime
               /\ waitlists'[wid].status = "converted"
               /\ waitlists'[wid].convertedBookingId = Len(bookings')]_vars

(***************************************************************************)
(* C23: the cleanup moves to EXPIRED exactly the entries that are ACTIVE   *)
(* or NOTIFIED with expiresAt before now and leaves every other entry, and *)
(* every reservation, as it was; and an entry that is ACTIVE or NOTIFIED   *)
(* past its expiresAt is EXPIRED, or was cancelled or converted, some time *)
(* later.                                                                  *)
(***************************************************************************)
PastExpiry(w) == w.status \in {"active", "notified"} /\ w.expiresAt < now

EntryPastExpiry(wid) ==
  IF wid \in 1..Len(waitlists) THEN PastExpiry(waitlists[wid]) ELSE FALSE

EntryClosed(wid) ==
  IF wid \in 1..Len(waitlists)
  THEN waitlists[wid].status \in {"expired", "cancelled", "converted"}
  ELSE FALSE

C23_CleanupExpiresExactly ==
  /\ [][(res'.op = "cleanupExpiredWaitlistEntries" /\ CleanupExpiredWaitlistEntries) =>
          /\ bookings' = bookings
          /\ Len(waitlists') = Len(waitlists)
          /\ \A i \in 1..Len(waitlists) :
                waitlists'[i] = IF PastExpiry(waitlists[i])
                                THEN [waitlists[i] EXCEPT !.status = "expired"]
                                ELSE waitlists[i]]_vars
  /\ \A wid \in 1..MaxQueue :
        (EntryPastExpiry(wid) ~> EntryClosed(wid))

\* the cleanup has run: one entry is EXPIRED, another is still waiting
\* because its expiresAt is not before now
C23_ExpiredOneKeptOther ==
  /\ res.op = "cleanupExpiredWaitlistEntries"
  /\ \E i, j \in 1..Len(waitlists) :
        /\ waitlists[i].status = "expired"
        /\ waitlists[j].status \in {"active", "notified"}
        /\ waitlists[j].expiresAt >= now

(***************************************************************************)
(* C24: updateNextBookingDate moves the date of a DAILY rule on by         *)
(* interval days, of a WEEKLY rule by 7 x interval days and of a MONTHLY   *)
(* rule by interval months (the same day of the month, or the last day of  *)
(* a shorter month), interval being 1 when the rule has none.              *)
(***************************************************************************)
RuleInterval(r) == IF r.interval = NULL THEN 1 ELSE r.interval

MonthsLater(d, n) ==
  LET mi == MonthIndex(d) + n
      day == IF DayOfMonth(d) <= MonthLength(mi) THEN DayOfMonth(d) ELSE MonthLength(mi)
  IN DaysBeforeMonth(mi) + day - 1

C24_AdvancesByInterval ==
  [][(res'.op = "updateNextBookingDate" /\ UpdateNextBookingDate(1)) =>
       LET r == rules[1]
           next == rules'[1].nextBookingDate
       IN /\ r.pattern = "daily" => next = r.nextBookingDate + RuleInterval(r)
          /\ r.pattern = "weekly" => next = r.nextBookingDate + 7 * RuleInterval(r)
          /\ r.pattern = "monthly" => next = MonthsLater(r.nextBookingDate, RuleInterval(r))]_vars

(***************************************************************************)
(* C25: for a WEEKDAYS, WEEKENDS or CUSTOM(daysOfWeek) rule,               *)
(* updateNextBookingDate gives the first day after the current date whose  *)
(* day of the week passes the filter of the pattern (Monday to Friday,     *)
(* Saturday and Sunday, the days of daysOfWeek): on a Friday a WEEKDAYS    *)
(* rule goes to the Monday after it.                                       *)
(***************************************************************************)
PatternDays(r) ==
  IF r.pattern = "weekdays" THEN 1..5
  ELSE IF r.pattern = "weekends" THEN {0, 6}
  ELSE r.daysOfWeek

C25_NextMatchingDay ==
  [][(res'.op = "updateNextBookingDate" /\ UpdateNextBookingDate(1)) =>
       LET r == rules[1]
           next == rules'[1].nextBookingDate
       IN (r.pattern \in {"weekdays", "weekends"} \/ (r.pattern = "custom" /\ r.hasDaysOfWeek))
          => /\ next > r.nextBookingDate
             /\ DayOfWeek(next) \in PatternDays(r)
             /\ \A d \in (r.nextBookingDate + 1)..(next - 1) :
                   DayOfWeek(d) \notin PatternDays(r)]_vars

\* a WEEKDAYS rule went from a Friday to the Monday three days later
C25_FridayToMonday ==
  /\ res.op = "updateNextBookingDate"
  /\ rules[1].pattern = "weekdays"
  /\ DayOfWeek(res.previous) = 5
  /\ DayOfWeek(rules[1].nextBookingDate) = 1
  /\ rules[1].nextBookingDate = res.previous + 3

(***************************************************************************)
(* C26: the recurrence tick runs the materialization of a reservation only *)
(* for a rule that is due: ACTIVE, not completed (completedOccurrences     *)
(* below maxOccurrences when that is set, endDate not passed) and with     *)
(* nextBookingDate today or earlier.  A rule that is not due is left as it *)
(* is, every reservation the tick stores belongs to a due rule, and        *)
(* completedOccurrences stays within maxOccurrences.                       *)
(***************************************************************************)
Today == now \div MinutesPerDay

IsDue(r) ==
  /\ r.status = "active"
  /\ r.maxOccurrences # NULL => r.completedOccurrences < r.maxOccurrences
  /\ r.endDate # NULL => Today <= r.endDate
  /\ Today >= r.nextBookingDate

OccurrenceStart(r) == r.nextBookingDate * MinutesPerDay + r.startTime

C26_TickOnlyDueRules ==
  [][(res'.op = "processRecurringBookings" /\ ProcessRecurringBookings) =>
       /\ \A rid \in 1..Len(rules) :
             /\ ~IsDue(rules[rid]) => rules'[rid] = rules[rid]
             /\ rules'[rid].maxOccurrences # NULL
                  => rules'[rid].completedOccurrences <= rules'[rid].maxOccurrences
       /\ \A k \in (Len(bookings) + 1)..Len(bookings') :
             \E rid \in 1..Len(rules) :
                /\ IsDue(rules[rid])
                /\ bookings'[k].userId = rules[rid].userId
                /\ bookings'[k].startTime = OccurrenceStart(rules[rid])]_vars

(***************************************************************************)
(* C27: every run of the materialization on a due rule moves the rule's    *)
(* nextBookingDate strictly forward, whether it stores the reservation or  *)
(* fails: on success bookingHistory gets one entry and                     *)
(* completedOccurrences goes up by one, on failure failureHistory gets one *)
(* entry and a notification is sent to the owner of the rule.              *)
(***************************************************************************)
C27_AttemptMovesRuleOn ==
  [][(res'.op = "processRecurringBookings" /\ ProcessRecurringBookings) =>
       \A rid \in 1..Len(rules) :
          IsDue(rules[rid]) =>
            /\ rules'[rid].nextBookingDate > rules[rid].nextBookingDate
            /\ \/ /\ Len(rules'[rid].bookingHistory) = Len(rules[rid].bookingHistory) + 1
                  /\ rules'[rid].completedOccurrences = rules[rid].completedOccurrences + 1
                  /\ rules'[rid].failureHistory = rules[rid].failureHistory
               \/ /\ Len(rules'[rid].failureHistory) = Len(rules[rid].failureHistory) + 1
                  /\ rules'[rid].bookingHistory = rules[rid].bookingHistory
                  /\ rules'[rid].completedOccurrences = rules[rid].completedOccurrences
                  /\ \E k \in 1..Len(res'.sent) : res'.sent[k].userId = rules[rid].userId]_vars

(***************************************************************************)
(* C28: a recurrence tick that runs right after a recurrence tick, with no *)
(* time elapsed in between, stores no reservation and changes no rule.     *)
(***************************************************************************)
C28_SecondTickChangesNothing ==
  [][(/\ res.op = "processRecurringBookings"
      /\ res.at = now
      /\ res'.op = "processRecurringBookings"
      /\ ProcessRecurringBookings)
     => (bookings' = bookings /\ rules' = rules)]_vars

(***************************************************************************)
(* C29: resume makes a PAUSED rule ACTIVE and sets its nextBookingDate to  *)
(* the later of its nextBookingDate and today.                             *)
(***************************************************************************)
C29_ResumeClampsToToday ==
  [][\A u \in Users, rid \in 1..MaxRules :
       (/\ res'.op = "resumeRecurringBooking"
        /\ ResumeRecurringBooking(u, rid)
        /\ FoundRule(u, rid)
        /\ rules[rid].status = "paused")
       => /\ rules'[rid].status = "active"
          /\ rules'[rid].nextBookingDate =
               IF rules[rid].nextBookingDate >= Today
               THEN rules[rid].nextBookingDate ELSE Today]_vars

(***************************************************************************)
(* Notification backoff.  JobFailed(i) is a dispatch tick in which the     *)
(* send of job i fails: its retryCount goes up by one.                     *)
(***************************************************************************)
JobFailed(i) ==
  /\ i <= Len(notifications)
  /\ notifications'[i].retryCount = notifications[i].retryCount + 1

TerminallyFailed(n) == n.status = "failed" /\ n.nextRetryAt = NULL

RetryDue(i) ==
  IF i <= Len(notifications)
    THEN /\ notifications[i].status = "failed"
         /\ notifications[i].retryCount < notifications[i].maxRetries
         /\ notifications[i].nextRetryAt # NULL
         /\ notifications[i].nextRetryAt <= now
    ELSE FALSE

\* job i is SENT, or FAILED with no retry left
RetrySettled(i) ==
  IF i <= Len(notifications)
    THEN \/ notifications[i].status = "sent"
         \/ /\ notifications[i].status = "failed"
            /\ notifications[i].retryCount = notifications[i].maxRetries
    ELSE FALSE

(***************************************************************************)
(* C31: a FAILED job with retryCount < maxRetries whose nextRetryAt has    *)
(* been reached is sent again by a later dispatch: under fair ticks it     *)
(* eventually is SENT, or FAILED with retryCount = maxRetries.             *)
(***************************************************************************)
C31_RetryDueIsRetried ==
  \A i \in 1..MaxStored : RetryDue(i) ~> RetrySettled(i)

\* job n is PENDING and its scheduledFor is at or before now, or unset
DueForDispatch(n) ==
  n.status = "pending" /\ (n.scheduledFor = NULL \/ n.scheduledFor <= now)

\* job n is PENDING and its scheduledFor is still in the future
ScheduledLater(n) ==
  n.status = "pending" /\ n.scheduledFor # NULL /\ n.scheduledFor > now

(***************************************************************************)
(* C32: the dispatch tick sends every PENDING job whose scheduledFor is at *)
(* or before now or unset, and none whose scheduledFor is in the future; a *)
(* successful send stores SENT and sentAt, a failed one FAILED, a          *)
(* failureReason and retryCount + 1.                                       *)
(***************************************************************************)
C32_DispatchSendsDueJobs ==
  [][(res'.op = "processPendingNotifications" /\ DispatchTick) =>
       \A i \in 1..Len(notifications) :
         /\ DueForDispatch(notifications[i]) => i \in res'.sent
         /\ ScheduledLater(notifications[i]) => i \notin res'.sent
         /\ i \in res'.sent =>
              \/ /\ notifications'[i].status = "sent"
                 /\ notifications'[i].sentAt = now
              \/ /\ notifications'[i].status = "failed"
                 /\ notifications'[i].failureReason # ""
                 /\ notifications'[i].retryCount = notifications[i].retryCount + 1]_vars

(***************************************************************************)
(* C33: no dispatch tick hands a PENDING job whose expiresAt has passed to *)
(* the channel.                                                            *)
(***************************************************************************)
C33_ExpiredNeverSent ==
  [][(res'.op = "processPendingNotifications" /\ DispatchTick) =>
       \A i \in 1..Len(notifications) :
         (/\ notifications[i].status = "pending"
          /\ NotificationIsExpired(notifications[i], now))
         => i \notin res'.sent]_vars

StatusPath ==
  {<<"pending", "sent">>, <<"sent", "delivered">>, <<"delivered", "read">>,
   <<"pending", "failed">>, <<"sent", "failed">>, <<"delivered", "failed">>,
   <<"failed", "pending">>}

C35_StatusPathOnly ==
  [][\A i \in 1..Len(notifications) :
       \/ notifications'[i].status = notifications[i].status
       \/ <<notifications[i].status, notifications'[i].status>> \in StatusPath]_vars

(***************************************************************************)
(* The notification channel and the operations that use it.                *)
(***************************************************************************)
ChannelOps ==
  {"joinWaitlist", "leaveWaitlist", "convertWaitlistToBooking",
   "createRecurringBooking", "pauseRecurringBooking", "resumeRecurringBooking",
   "cancelRecurringBooking"}

C37_NoEntryNotifiedTwice ==
  \A p \in Procs, q \in Procs :
    p # q => calls[p].sent \cap calls[q].sent = {}


(***************************************************************************)
(* A run of the recurrence tick that ends early.                           *)
(***************************************************************************)
ValidRule(r) ==
  /\ r.status \in {"active", "paused", "cancelled", "completed"}
  /\ r.nextBookingDate >= r.startDate
  /\ r.completedOccurrences = Len(r.bookingHistory)
  /\ r.startTime < r.endTime

ValidEntities ==
  /\ \A i \in 1..Len(rules) : ValidRule(rules[i])
  /\ \A i \in 1..Len(bookings) :
        /\ bookings[i].startTime < bookings[i].endTime
        /\ bookings[i].status \in {"pending", "confirmed", "active", "completed",
                                   "cancelled", "no_show"}

\* the run stores no reservation for an occurrence that has one
NoSecondReservation ==
  \A j \in (Len(bookings) + 1)..Len(bookings') :
    \A k \in 1..Len(bookings) :
      ~(/\ HoldsCapacity(bookings[k])
        /\ bookings[k].userId = bookings'[j].userId
        /\ bookings[k].startTime = bookings'[j].startTime
        /\ bookings[k].endTime = bookings'[j].endTime)

\* the last run of the tick ended in its outer catch
LastRunAborted ==
  IF res.op = "processRecurringBookings" THEN res.aborted ELSE FALSE

\* C38: when a run of the recurrence tick fails partway, every rule and
\* every reservation is in a valid state, and the run after it stores no
\* second reservation for an occurrence and starts on no item whose pass
\* the failed run had ended.
C38_FailedTickLeavesNoRework ==
  /\ []ValidEntities
  /\ [][(LastRunAborted /\ RecurrenceTickFailing)
          => (NoSecondReservation /\ res'.begun \cap res.done = {})]_vars

(***************************************************************************)
(* Positions under joins and leaves in flight together.                    *)
(***************************************************************************)
\* no join or leave stands between its read and its write
NoRequestInFlight == \A p \in Procs : calls[p].pc = "idle"

\* C39: whatever the interleaving of joins and leaves, once they have all
\* returned the ACTIVE entries of the parking hold the positions 1..N, each
\* once, in the order they joined in.
C39_PositionsAtomic ==
  NoRequestInFlight =>
    \A i \in 1..Len(waitlists) :
      waitlists[i].status = "active" =>
        waitlists[i].position =
          Cardinality({j \in 1..i : waitlists[j].status = "active"})

(***************************************************************************)
(* The end of calculateNextBookingDate.                                    *)
(***************************************************************************)
\* C40: every call of calculateNextBookingDate returns, also for a CUSTOM
\* rule whose daysOfWeek is empty or holds no value of 0..6, and the date
\* it returns is after the nextBookingDate the rule had.
C40_NextDateTerminates ==
  /\ [][rules'[1].nextBookingDate # rules[1].nextBookingDate
          => rules'[1].nextBookingDate > rules[1].nextBookingDate]_vars
  /\ (calls[1].pc = "loop") ~> (calls[1].pc = "idle")
====
